---- MODULE Spec2Model ----
(***************************************************************************)
(* A model of the RGB LED part of the ayaneo-platform driver               *)
(* (src/ayaneo-platform.c, the driver version that starts at line 581):    *)
(* the colour setter, the writer thread, the suspend-mode attribute and    *)
(* the init / suspend / resume / exit callbacks.                           *)
(*                                                                         *)
(* The writer thread, the setter and the lifecycle callbacks run           *)
(* concurrently; each has a program counter (wpc, spc, lpc) and its steps  *)
(* are cut at the places where it takes or releases                        *)
(* ayaneo_led_mc_update_lock, blocks, or calls into the bus.               *)
(***************************************************************************)
EXTENDS Integers, Sequences, FiniteSets, TLC

VARIABLES
    model,              \* static enum ayaneo_model model (0: unresolved)
    suspend_mode,       \* static enum AYANEO_LED_SUSPEND_MODE suspend_mode
    update_required,    \* ayaneo_led_mc_update_required
    update_color,       \* ayaneo_led_mc_update_color[3]
    update_lock,        \* ayaneo_led_mc_update_lock: who holds it
    brightness,         \* ayaneo_led_mc.led_cdev.brightness
    writer_thread,      \* ayaneo_led_mc_writer_thread: what the handle denotes
    should_stop,        \* the kthread's should-stop flag
    wpc,                \* writer thread: position in ayaneo_led_mc_writer
    count,              \* writer thread local: int count
    color,              \* writer thread local: u8 color[3]
    wi,                 \* writer thread: next operation of the cascade
    spc,                \* setter: position in ayaneo_led_mc_brightness_set
    lifecycle,          \* which callback returned last
    lpc,                \* lifecycle callback in progress
    hw,                 \* the microcontroller's registers, abstracted
    bus_out,            \* the bus operations the last step issued
    acpi_busy,          \* the ACPI global lock is held by another party
    busy_periods,       \* history: how often another party has taken it
    last_set,           \* history: the triple stored by the last accepted set
    unsnapped,          \* history: increments since the writer's last snapshot
    accepted_brightness,\* history: the brightness of the last accepted set
    args,               \* a function of the driver called on its own: inputs
    result,             \* ... and what it returned or wrote
    sysfs_out           \* what the sysfs call made in the last step returned

vars == <<model, suspend_mode, update_required, update_color, update_lock,
          brightness, writer_thread, should_stop, wpc, count, color, wi, spc,
          lifecycle, lpc, hw, bus_out, acpi_busy, last_set, unsnapped,
          accepted_brightness, args, result, busy_periods, sysfs_out>>

(***************************************************************************)
(* Bounds of the model.                                                    *)
(***************************************************************************)
\* setter calls and Resume are not started while this many updates are pending
MaxPending == 2

\* another party takes the ACPI global lock at most this many times
MaxBusy == 1

\* ... and writes the index ports at most this many times while it holds it
MaxOtherWrites == 1

\* the values a caller passes as brightness and as a channel intensity
Brightnesses == {128, 256}
IntensityTriples == {<<255, 0, 128>>, <<0, 255, 0>>,
                     <<256, 0, 0>>, <<7, 256, 0>>, <<7, 7, 256>>}

(***************************************************************************)
(* enum ayaneo_model and the transport family each dispatcher gives it.    *)
(***************************************************************************)
air == 1
air_1s == 2
air_1s_limited == 3
air_plus == 4
air_plus_mendo == 5
air_pro == 6
ayaneo_2 == 7
ayaneo_2s == 8
geek == 9
geek_1s == 10
kun == 11
slide == 12

Models == air .. slide

\* static enum ayaneo_model model: zero until probe assigns it, and no
\* enumerator is zero
unresolved == 0

\* the models the lifecycle machine is explored for: one per cascade shape
ModelsExplored == {air, air_plus, kun}

AYANEO_LED_GROUP_LEFT == 1
AYANEO_LED_GROUP_RIGHT == 2
AYANEO_LED_GROUP_LEFT_RIGHT == 3
AYANEO_LED_GROUP_BUTTON == 4

SuspendModes == {"oem", "keep", "off"}

(***************************************************************************)
(* ayaneo_led_mc_scale_color: one channel, then the triple.                *)
(***************************************************************************)
\* a scaling that rounds up instead of down
ScaleChannel_round_up(v, max_value) ==
    ((v * max_value + 254) \div 255) % 256

\* a scaling without the clamp to 1
ScaleChannel_floor(v, max_value) ==
    ((v * max_value) \div 255) % 256

ScaleChannel(v, max_value) ==
    LET c_color == (v * max_value) \div 255
    IN  (IF c_color = 0 /\ v > 0 THEN 1 ELSE c_color) % 256

ayaneo_led_mc_scale_color(c, max_value) ==
    [i \in 1..3 |-> ScaleChannel(c[i], max_value)]

(***************************************************************************)
(* Bus operations.  An operation is a record [fn, group, color]; fn is the *)
(* name of the function of the driver that issues the writes.              *)
(***************************************************************************)
NoColor == <<0, 0, 0>>

Op(fn) == [fn |-> fn, group |-> 0, color |-> NoColor]
OpC(fn, group, c) == [fn |-> fn, group |-> group, color |-> c]

\* a take-control that takes hold of the controller last
TakeControlOps_hold_last(m) ==
    IF m \in {air, air_1s, air_1s_limited, air_pro, air_plus_mendo, geek,
              geek_1s, ayaneo_2, ayaneo_2s, kun}
    THEN <<Op("legacy_reset"), Op("legacy_off"), Op("legacy_hold")>>
    ELSE IF m \in {air_plus, slide}
    THEN <<Op("reset"), Op("off"), Op("hold")>>
    ELSE <<>>

\* ayaneo_led_mc_take_control
TakeControlOps(m) ==
    IF m \in {air, air_1s, air_1s_limited, air_pro, air_plus_mendo, geek,
              geek_1s, ayaneo_2, ayaneo_2s, kun}
    THEN <<Op("legacy_hold"), Op("legacy_reset"), Op("legacy_off")>>
    ELSE IF m \in {air_plus, slide}
    THEN <<Op("hold"), Op("reset"), Op("off")>>
    ELSE <<>>

\* a release-control that takes AIR Plus Mendocino for an AIR Plus
ReleaseControlOps_mendo_indexed(m) ==
    IF m \in {air, air_1s, air_1s_limited, air_pro, geek,
              geek_1s, ayaneo_2, ayaneo_2s, kun}
    THEN <<Op("legacy_reset"), Op("legacy_release")>>
    ELSE IF m \in {air_plus, air_plus_mendo, slide}
    THEN <<Op("reset"), Op("release")>>
    ELSE <<>>

\* ayaneo_led_mc_release_control
ReleaseControlOps(m) ==
    IF m \in {air, air_1s, air_1s_limited, air_pro, air_plus_mendo, geek,
              geek_1s, ayaneo_2, ayaneo_2s, kun}
    THEN <<Op("legacy_reset"), Op("legacy_release")>>
    ELSE IF m \in {air_plus, slide}
    THEN <<Op("reset"), Op("release")>>
    ELSE <<>>

\* ayaneo_led_mc_brightness_apply: the three copies are scaled to 192 first,
\* then once more for the models that have their own ceiling
\* a cascade that scales the left copy with the model's ceiling only
Color_l_once(m, c) ==
    IF m \in {air, air_pro, air_1s} THEN ayaneo_led_mc_scale_color(c, 69)
    ELSE IF m \in {air_plus_mendo, air_plus}
    THEN ayaneo_led_mc_scale_color(c, 64)
    ELSE ayaneo_led_mc_scale_color(c, 192)

Color_l(m, c) ==
    LET base == ayaneo_led_mc_scale_color(c, 192)
    IN  IF m \in {air, air_pro, air_1s} THEN ayaneo_led_mc_scale_color(base, 69)
        ELSE IF m \in {air_plus_mendo, air_plus}
        THEN ayaneo_led_mc_scale_color(base, 64)
        ELSE base

Color_r(m, c) ==
    LET base == ayaneo_led_mc_scale_color(c, 192)
    IN  IF m = air_1s_limited THEN ayaneo_led_mc_scale_color(base, 204)
        ELSE IF m \in {air_plus_mendo, air_plus}
        THEN ayaneo_led_mc_scale_color(base, 32)
        ELSE base

Color_b(m, c) == ayaneo_led_mc_scale_color(c, 192)

\* a cascade whose default case falls into the legacy cascade
ApplyOps_default_legacy(m, c) ==
    IF m \in {air_plus, slide}
    THEN <<Op("on"),
           OpC("intensity", AYANEO_LED_GROUP_LEFT, Color_l(m, c)),
           OpC("intensity", AYANEO_LED_GROUP_RIGHT, Color_r(m, c))>>
    ELSE IF m = kun
    THEN <<Op("legacy_on"),
           OpC("legacy_intensity_kun", AYANEO_LED_GROUP_LEFT, Color_l(m, c)),
           OpC("legacy_intensity_kun", AYANEO_LED_GROUP_RIGHT, Color_r(m, c)),
           OpC("legacy_intensity_kun", AYANEO_LED_GROUP_BUTTON, Color_b(m, c))>>
    ELSE <<Op("legacy_on"),
           OpC("legacy_intensity", AYANEO_LED_GROUP_LEFT, Color_l(m, c)),
           OpC("legacy_intensity", AYANEO_LED_GROUP_RIGHT, Color_r(m, c))>>

ApplyOps(m, c) ==
    IF m \in {air, air_pro, air_1s, air_1s_limited, geek, geek_1s, ayaneo_2,
              ayaneo_2s, air_plus_mendo}
    THEN <<Op("legacy_on"),
           OpC("legacy_intensity", AYANEO_LED_GROUP_LEFT, Color_l(m, c)),
           OpC("legacy_intensity", AYANEO_LED_GROUP_RIGHT, Color_r(m, c))>>
    ELSE IF m \in {air_plus, slide}
    THEN <<Op("on"),
           OpC("intensity", AYANEO_LED_GROUP_LEFT, Color_l(m, c)),
           OpC("intensity", AYANEO_LED_GROUP_RIGHT, Color_r(m, c))>>
    ELSE IF m = kun
    THEN <<Op("legacy_on"),
           OpC("legacy_intensity_kun", AYANEO_LED_GROUP_LEFT, Color_l(m, c)),
           OpC("legacy_intensity_kun", AYANEO_LED_GROUP_RIGHT, Color_r(m, c)),
           OpC("legacy_intensity_kun", AYANEO_LED_GROUP_BUTTON, Color_b(m, c))>>
    ELSE <<>>

(***************************************************************************)
(* The register writes of the colour operations.  A write is a record      *)
(* [group, pos, val, ch]: ch is the index (1..3) of the channel of the     *)
(* colour passed to the operation whose value the write carries, 0 for a   *)
(* write that carries none.                                                *)
(***************************************************************************)
\* u8 zones[4] = {3, 6, 9, 12}
zones == <<3, 6, 9, 12>>

Write(group, pos, val, ch) == [group |-> group, pos |-> pos, val |-> val, ch |-> ch]

\* ayaneo_led_mc_legacy_intensity_single on remap: remap[k] is the channel of
\* the caller's colour that is written at zone + k - 1
SingleWrites(group, c, remap, zone) ==
    [k \in 1..3 |-> Write(group, zone + k - 1, c[remap[k]], remap[k])]

\* ayaneo_led_mc_legacy_set(AYANEO_LED_GROUP_LEFT_RIGHT, 0x00, 0x00)
CloseWrite == Write(AYANEO_LED_GROUP_LEFT_RIGHT, 0, 0, 0)

\* ayaneo_led_mc_intensity: the three channels at each of the four zones
IntensityWrites(group, c) ==
    SingleWrites(group, c, <<1, 2, 3>>, zones[1])
        \o SingleWrites(group, c, <<1, 2, 3>>, zones[2])
        \o SingleWrites(group, c, <<1, 2, 3>>, zones[3])
        \o SingleWrites(group, c, <<1, 2, 3>>, zones[4])

\* ayaneo_led_mc_legacy_intensity
LegacyIntensityWrites(group, c) == IntensityWrites(group, c) \o <<CloseWrite>>

\* a KUN remap whose last zone repeats the order of the zone before it
KunIntensityWrites_copied(group, c) ==
    IF group = AYANEO_LED_GROUP_BUTTON
    THEN SingleWrites(AYANEO_LED_GROUP_BUTTON, c, <<3, 1, 2>>, 12)
            \o <<CloseWrite>>
    ELSE SingleWrites(group, c, <<2, 1, 3>>, 3)
            \o SingleWrites(group, c, <<2, 3, 1>>, 6)
            \o SingleWrites(group, c, <<3, 1, 2>>, 9)
            \o SingleWrites(group, c, <<3, 1, 2>>, 12)
            \o <<CloseWrite>>

\* ayaneo_led_mc_legacy_intensity_kun
KunIntensityWrites(group, c) ==
    IF group = AYANEO_LED_GROUP_BUTTON
    THEN SingleWrites(AYANEO_LED_GROUP_BUTTON, c, <<3, 1, 2>>, 12)
            \o <<CloseWrite>>
    ELSE SingleWrites(group, c, <<2, 1, 3>>, 3)
            \o SingleWrites(group, c, <<2, 3, 1>>, 6)
            \o SingleWrites(group, c, <<3, 1, 2>>, 9)
            \o SingleWrites(group, c, <<3, 2, 1>>, 12)
            \o <<CloseWrite>>

\* the colour writes of one bus operation
ColorWrites(op) ==
    CASE op.fn = "intensity" -> IntensityWrites(op.group, op.color)
      [] op.fn = "legacy_intensity" -> LegacyIntensityWrites(op.group, op.color)
      [] op.fn = "legacy_intensity_kun" -> KunIntensityWrites(op.group, op.color)
      [] OTHER -> <<>>

RECURSIVE AllColorWrites(_)
AllColorWrites(ops) ==
    IF ops = <<>> THEN <<>>
    ELSE ColorWrites(Head(ops)) \o AllColorWrites(Tail(ops))

(***************************************************************************)
(* The microcontroller, abstracted to what the last writes left in it:     *)
(* the mode register, the enable command and the colour of each group.     *)
(* Every legacy operation built from ayaneo_led_mc_legacy_set ends with a  *)
(* write of MODE_HOLD to the mode register; a reset reverts the colour     *)
(* registers to their power-on defaults.                                   *)
(***************************************************************************)
\* a colour register that holds its power-on default
PowerOn == <<>>

HwBoot == [mode |-> "RELEASE", enable |-> "oem",
           left |-> PowerOn, right |-> PowerOn, button |-> PowerOn]

LegacySetFns == {"legacy_reset", "legacy_off", "legacy_on", "legacy_intensity",
                 "legacy_intensity_kun"}

Effect(h, op) ==
    LET h1 == IF op.fn \in LegacySetFns THEN [h EXCEPT !.mode = "HOLD"] ELSE h
    IN  CASE op.fn \in {"legacy_hold", "hold"} -> [h1 EXCEPT !.mode = "HOLD"]
          [] op.fn \in {"legacy_release", "release"} ->
                 [h1 EXCEPT !.mode = "RELEASE"]
          [] op.fn \in {"legacy_reset", "reset"} ->
                 [h1 EXCEPT !.enable = "reset", !.left = PowerOn,
                            !.right = PowerOn, !.button = PowerOn]
          [] op.fn \in {"legacy_off", "off"} -> [h1 EXCEPT !.enable = "off"]
          [] op.fn \in {"legacy_on", "on"} -> [h1 EXCEPT !.enable = "on"]
          [] op.fn \in {"legacy_intensity", "legacy_intensity_kun", "intensity"} ->
                 IF op.group = AYANEO_LED_GROUP_LEFT
                 THEN [h1 EXCEPT !.left = op.color]
                 ELSE IF op.group = AYANEO_LED_GROUP_RIGHT
                 THEN [h1 EXCEPT !.right = op.color]
                 ELSE [h1 EXCEPT !.button = op.color]
          [] OTHER -> h1

RECURSIVE Run(_, _)
Run(h, ops) == IF ops = <<>> THEN h ELSE Run(Effect(h, Head(ops)), Tail(ops))

\* lock_global_acpi_lock fails while another party holds the global lock:
\* the operation then returns without a write
Issue(ops) ==
    /\ sysfs_out' = <<>>
    /\ bus_out' = ops
    /\ hw' = IF acpi_busy THEN hw ELSE Run(hw, ops)

NoBus == bus_out' = <<>> /\ hw' = hw /\ sysfs_out' = <<>>

(***************************************************************************)
(* Initial state: the module is not loaded, the firmware owns the LEDs.    *)
(***************************************************************************)
Unloaded ==
    /\ suspend_mode = "oem"
    /\ update_required = 0
    /\ update_color = <<0, 0, 0>>
    /\ update_lock = "free"
    /\ brightness = 0
    /\ writer_thread = "null"
    /\ should_stop = FALSE
    /\ wpc = "none"
    /\ count = 0
    /\ color = <<0, 0, 0>>
    /\ wi = 1
    /\ spc = "idle"
    /\ lifecycle = "Uninitialized"
    /\ lpc = "idle"
    /\ hw = HwBoot
    /\ bus_out = <<>>
    /\ acpi_busy = FALSE
    /\ busy_periods = 0
    /\ last_set = <<0, 0, 0>>
    /\ unsnapped = 0
    /\ accepted_brightness = 0
    /\ sysfs_out = <<>>
    /\ args = <<>>
    /\ result = <<>>

Init == model \in ModelsExplored /\ Unloaded


(***************************************************************************)
(* ayaneo_led_mc_writer.  Positions: "check" (the loop condition), "rlock" *)
(* (about to take the read lock), "snap" (holding it), "apply" (inside     *)
(* ayaneo_led_mc_brightness_apply, wi is the next operation), "wlock"      *)
(* (about to take the write lock), "sub" (holding it), "sleep", "exited".  *)
(***************************************************************************)
WriterFrame ==
    UNCHANGED <<model, suspend_mode, brightness, writer_thread, should_stop,
                spc, lifecycle, lpc, acpi_busy, last_set, accepted_brightness,
                args, result, busy_periods>>

\* while (!kthread_should_stop())
W_check ==
    /\ wpc = "check"
    /\ wpc' = IF should_stop THEN "exited" ELSE "rlock"
    /\ NoBus
    /\ WriterFrame
    /\ UNCHANGED <<update_required, update_color, update_lock, count, color,
                   wi, unsnapped>>

\* read_lock(&ayaneo_led_mc_update_lock)
W_rlock ==
    /\ wpc = "rlock"
    /\ update_lock = "free"
    /\ update_lock' = "read"
    /\ wpc' = "snap"
    /\ NoBus
    /\ WriterFrame
    /\ UNCHANGED <<update_required, update_color, count, color, wi, unsnapped>>

\* a writer that keeps the triple of its previous cascade
SnapshotColor_previous == color

\* the triple the writer copies when count is not zero
SnapshotColor == update_color

\* a writer whose read_unlock comes after the cascade instead of before it
LockAfterSnapshot_held == "read"

\* read_unlock(&ayaneo_led_mc_update_lock), before the test of count
LockAfterSnapshot == "free"

\* count = update_required; copy the colour if (count); read_unlock
W_snap ==
    /\ wpc = "snap"
    /\ count' = update_required
    /\ color' = IF update_required # 0 THEN SnapshotColor ELSE color
    /\ update_lock' = LockAfterSnapshot
    /\ wpc' = IF update_required # 0 THEN "apply" ELSE "sleep"
    /\ wi' = 1
    /\ unsnapped' = 0
    /\ NoBus
    /\ WriterFrame
    /\ UNCHANGED <<update_required, update_color>>

\* a writer that also tests the stop signal between two bus operations
W_apply_interruptible ==
    /\ wpc = "apply"
    /\ LET ops == ApplyOps(model, color)
       IN  IF should_stop
           THEN /\ NoBus
                /\ wi' = wi
                /\ wpc' = "exited"
           ELSE IF wi <= Len(ops)
           THEN /\ Issue(<<ops[wi]>>)
                /\ wi' = wi + 1
                /\ wpc' = IF wi = Len(ops) THEN "wlock" ELSE "apply"
           ELSE /\ NoBus
                /\ wi' = wi
                /\ wpc' = "wlock"
    /\ WriterFrame
    /\ UNCHANGED <<update_required, update_color, update_lock, count, color,
                   unsnapped>>

\* ayaneo_led_mc_brightness_apply(color), one bus operation per step
W_apply ==
    /\ wpc = "apply"
    /\ LET ops == ApplyOps(model, color)
       IN  IF wi <= Len(ops)
           THEN /\ Issue(<<ops[wi]>>)
                /\ wi' = wi + 1
                /\ wpc' = IF wi = Len(ops) THEN "wlock" ELSE "apply"
           ELSE /\ NoBus
                /\ wi' = wi
                /\ wpc' = "wlock"
    /\ WriterFrame
    /\ UNCHANGED <<update_required, update_color, update_lock, count, color,
                   unsnapped>>

\* write_lock(&ayaneo_led_mc_update_lock)
W_wlock ==
    /\ wpc = "wlock"
    /\ update_lock = "free"
    /\ update_lock' = "writer"
    /\ wpc' = "sub"
    /\ NoBus
    /\ WriterFrame
    /\ UNCHANGED <<update_required, update_color, count, color, wi, unsnapped>>

\* a writer that clears the counter instead of subtracting its snapshot
Subtracted_cleared == update_required - update_required

\* a writer that subtracts one more than it snapshotted
Subtracted_one_more == update_required - count - 1

\* the value the writer leaves in ayaneo_led_mc_update_required
Subtracted == update_required - count

\* ayaneo_led_mc_update_required -= count; write_unlock
W_sub ==
    /\ wpc = "sub"
    /\ update_required' = Subtracted
    /\ update_lock' = "free"
    /\ wpc' = "check"
    /\ NoBus
    /\ WriterFrame
    /\ UNCHANGED <<update_color, count, color, wi, unsnapped>>

\* usleep_range(AYANEO_LED_WRITER_DELAY_RANGE_US)
W_sleep ==
    /\ wpc = "sleep"
    /\ wpc' = "check"
    /\ NoBus
    /\ WriterFrame
    /\ UNCHANGED <<update_required, update_color, update_lock, count, color,
                   wi, unsnapped>>

Writer == W_check \/ W_rlock \/ W_snap \/ W_apply \/ W_wlock \/ W_sub \/ W_sleep

(***************************************************************************)
(* ayaneo_led_mc_brightness_set.  Positions: "idle" (never called),        *)
(* "lock" (brightness stored, about to take the write lock), "body"        *)
(* (holding it, before the loop), and the three ways the call returns:     *)
(* "ret_1331" (brightness out of range), "ret_1339" (an intensity out of   *)
(* range: returns inside the loop, the write lock still held) and          *)
(* "ret_1345" (stored).  The intensities are mc_cdev->subled_info[i], set  *)
(* by the caller before the call; the model draws them when they are read. *)
(***************************************************************************)
Returned == {"idle", "ret_1331", "ret_1339", "ret_1345"}

SetterFrame ==
    UNCHANGED <<model, suspend_mode, writer_thread, should_stop, wpc, count,
                color, wi, lifecycle, lpc, acpi_busy, args, result,
                busy_periods>>

InRange(v) == ~(v < 0 \/ v > 255)

\* if (brightness < 0 || brightness > 255) return; led_cdev->brightness = ...
SetBegin(b) ==
    /\ spc \in Returned
    /\ lifecycle \in {"Active", "Suspended"}
    /\ update_required < MaxPending
    /\ IF InRange(b)
       THEN brightness' = b /\ spc' = "lock"
       ELSE brightness' = brightness /\ spc' = "ret_1331"
    /\ NoBus
    /\ SetterFrame
    /\ UNCHANGED <<update_required, update_color, update_lock, last_set,
                   unsnapped, accepted_brightness>>

\* write_lock(&ayaneo_led_mc_update_lock)
SetLock ==
    /\ spc = "lock"
    /\ update_lock = "free"
    /\ update_lock' = "setter"
    /\ spc' = "body"
    /\ NoBus
    /\ SetterFrame
    /\ UNCHANGED <<update_required, update_color, brightness, last_set,
                   unsnapped, accepted_brightness>>

\* the first index of the loop whose intensity is out of range (4: none)
FirstBad(ints) ==
    IF \E i \in 1..3 : ~InRange(ints[i])
    THEN CHOOSE i \in 1..3 : ~InRange(ints[i]) /\ \A j \in 1..(i - 1) : InRange(ints[j])
    ELSE 4

\* val = brightness * s_led.intensity / led_cdev->max_brightness, as a u8
Val(b, intensity) == ((b * intensity) \div 255) % 256

\* update_color after the loop has run up to (not including) index k
LoopStores(ints, k) ==
    [i \in 1..3 |-> IF i < k THEN Val(brightness, ints[i]) ELSE update_color[i]]

\* what the return inside the loop leaves in the lock
LockAfterReject == "setter"

\* a setter that writes the colour itself, as the driver did before it had
\* a writer thread
SetterOps_direct(c) == ApplyOps(model, c)

\* the bus operations ayaneo_led_mc_brightness_set issues for the triple it
\* has stored: it calls no function of the bus
SetterOps(c) == <<>>

\* the loop, the increment and write_unlock
SetBody(ints) ==
    /\ spc = "body"
    /\ LET k == FirstBad(ints)
       IN  /\ update_color' = LoopStores(ints, k)
           /\ IF k = 4
              THEN /\ update_required' = update_required + 1
                   /\ update_lock' = "free"
                   /\ spc' = "ret_1345"
                   /\ last_set' = update_color'
                   /\ unsnapped' = unsnapped + 1
                   /\ accepted_brightness' = brightness
              ELSE /\ update_required' = update_required
                   /\ update_lock' = LockAfterReject
                   /\ spc' = "ret_1339"
                   /\ last_set' = last_set
                   /\ unsnapped' = unsnapped
                   /\ accepted_brightness' = accepted_brightness
           /\ Issue(SetterOps(LoopStores(ints, k)))
    /\ SetterFrame
    /\ UNCHANGED brightness

\* ayaneo_led_mc_brightness_get: return led_cdev->brightness
ayaneo_led_mc_brightness_get == brightness

Setter ==
    \/ \E b \in Brightnesses : SetBegin(b)
    \/ SetLock
    \/ \E ints \in IntensityTriples : SetBody(ints)

(***************************************************************************)
(* The suspend_mode attribute.  The enumerators of AYANEO_LED_SUSPEND_MODE *)
(* are named by their texts; res is the index sysfs_match_string returns   *)
(* (from 0), count the number of bytes written or emitted.  The output of  *)
(* suspend_mode_show is kept as the pieces that were emitted, the last of  *)
(* them one character long.                                                *)
(***************************************************************************)
AYANEO_LED_SUSPEND_MODE_TEXT == <<"oem", "keep", "off">>
EINVAL == 22

sysfs_match_string(array, buf) ==
    IF \E i \in 1..Len(array) : array[i] = buf
    THEN (CHOOSE i \in 1..Len(array) : array[i] = buf) - 1
    ELSE 0 - EINVAL

\* suspend_mode after suspend_mode_store has matched its input
ModeAfterStore_reset(res) ==
    IF res < 0 THEN "oem" ELSE AYANEO_LED_SUSPEND_MODE_TEXT[res + 1]
ModeAfterStore(res) ==
    IF res < 0 THEN suspend_mode ELSE AYANEO_LED_SUSPEND_MODE_TEXT[res + 1]

suspend_mode_store(buf) ==
    /\ lifecycle = "Active"
    /\ lpc = "idle"
    /\ LET res == sysfs_match_string(AYANEO_LED_SUSPEND_MODE_TEXT, buf)
       IN  /\ suspend_mode' = ModeAfterStore(res)
           /\ sysfs_out' = <<[fn |-> "suspend_mode_store", buf |-> buf,
                               ret |-> IF res < 0 THEN 0 - EINVAL
                                       ELSE Len(buf)]>>
    /\ bus_out' = <<>>
    /\ hw' = hw
    /\ UNCHANGED <<model, update_required, update_color, update_lock,
                   brightness, writer_thread, should_stop, wpc, count, color,
                   wi, spc, lifecycle, lpc, acpi_busy, last_set, unsnapped,
                   accepted_brightness, args, result, busy_periods>>

\* active = i == suspend_mode
ShowActive_first(i) == i = 0
ShowActive(i) == AYANEO_LED_SUSPEND_MODE_TEXT[i + 1] = suspend_mode

\* one sysfs_emit_at: "[%s] " or "%s "
ShowEmit(i) ==
    IF ShowActive(i)
    THEN <<"[", AYANEO_LED_SUSPEND_MODE_TEXT[i + 1], "]", " ">>
    ELSE <<AYANEO_LED_SUSPEND_MODE_TEXT[i + 1], " ">>

\* the loop from i to ARRAY_SIZE(AYANEO_LED_SUSPEND_MODE_TEXT) - 1
RECURSIVE ShowLoop(_)
ShowLoop(i) ==
    IF i < Len(AYANEO_LED_SUSPEND_MODE_TEXT)
    THEN ShowEmit(i) \o ShowLoop(i + 1)
    ELSE <<>>

\* the bytes in a list of pieces
RECURSIVE Bytes(_)
Bytes(pieces) ==
    IF pieces = <<>> THEN 0 ELSE Len(Head(pieces)) + Bytes(Tail(pieces))

\* if (count) buf[count - 1] = '\n'
ShowBuffer ==
    LET emitted == ShowLoop(0)
    IN  IF Bytes(emitted) # 0
        THEN [emitted EXCEPT ![Len(emitted)] = "\n"]
        ELSE emitted

suspend_mode_show ==
    /\ lifecycle = "Active"
    /\ lpc = "idle"
    /\ sysfs_out' = <<[fn |-> "suspend_mode_show", out |-> ShowBuffer,
                       ret |-> Bytes(ShowLoop(0))]>>
    /\ bus_out' = <<>>
    /\ hw' = hw
    /\ UNCHANGED <<model, suspend_mode, update_required, update_color,
                   update_lock, brightness, writer_thread, should_stop, wpc,
                   count, color, wi, spc, lifecycle, lpc, acpi_busy, last_set,
                   unsnapped, accepted_brightness, args, result,
                   busy_periods>>


(***************************************************************************)
(* Lifecycle callbacks.  lifecycle is the state the last completed         *)
(* callback left; lpc is the callback in progress: "suspend_stop" and      *)
(* "exit_stop" (inside kthread_stop, waiting for the thread to exit),      *)
(* "resume_lock" (take-control done, about to take the write lock),        *)
(* "resume_bump" (holding it).                                             *)
(***************************************************************************)
LifeFrame ==
    UNCHANGED <<model, suspend_mode, update_color, brightness, spc, acpi_busy,
                last_set, accepted_brightness, args, result, busy_periods>>

\* kthread_run(ayaneo_led_mc_writer, ...): a new thread at the top of the loop
ThreadStarts ==
    /\ writer_thread' = "live"
    /\ should_stop' = FALSE
    /\ wpc' = "check"
    /\ count' = 0
    /\ color' = <<0, 0, 0>>
    /\ wi' = 1

\* ayaneo_platform_init: platform_create_bundle runs ayaneo_platform_probe
\* (model resolved, take-control), then the writer thread is started
ayaneo_platform_init ==
    /\ lifecycle = "Uninitialized"
    /\ Issue(TakeControlOps(model))
    /\ ThreadStarts
    /\ lifecycle' = "Active"
    /\ LifeFrame
    /\ UNCHANGED <<update_required, update_lock, lpc, unsnapped>>

\* a kthread_stop that only signals and does not wait
ThreadStopped_no_wait == TRUE

\* kthread_stop returns when the thread it was given has exited
ThreadStopped == wpc = "exited"

\* a switch whose keep case falls through to the off case
SuspendOps_fallthrough(mode, m) ==
    CASE mode = "oem" -> ReleaseControlOps(m)
      [] mode = "keep" -> TakeControlOps(m)
      [] mode = "off" -> TakeControlOps(m)
      [] OTHER -> <<>>

\* the switch on suspend_mode in ayaneo_platform_suspend
SuspendOps(mode, m) ==
    CASE mode = "oem" -> ReleaseControlOps(m)
      [] mode = "keep" -> <<>>
      [] mode = "off" -> TakeControlOps(m)
      [] OTHER -> <<>>

\* ayaneo_platform_suspend, up to the wait inside kthread_stop
SuspendBegin ==
    /\ lifecycle = "Active"
    /\ lpc = "idle"
    /\ should_stop' = TRUE
    /\ lpc' = "suspend_stop"
    /\ NoBus
    /\ LifeFrame
    /\ UNCHANGED <<update_required, update_lock, writer_thread, wpc, count,
                   color, wi, lifecycle, unsnapped>>

\* kthread_stop returns; the switch on suspend_mode; return 0
SuspendFinish ==
    /\ lpc = "suspend_stop"
    /\ ThreadStopped
    /\ Issue(SuspendOps(suspend_mode, model))
    /\ writer_thread' = "stale"
    /\ lifecycle' = "Suspended"
    /\ lpc' = "idle"
    /\ LifeFrame
    /\ UNCHANGED <<update_required, update_lock, should_stop, wpc, count,
                   color, wi, unsnapped>>

\* a Resume that starts the writer without taking control again
ResumeOps_none(m) == <<>>

\* the bus operations ayaneo_platform_resume issues before it takes the lock
ResumeOps(m) == TakeControlOps(m)

\* ayaneo_platform_resume: ayaneo_led_mc_take_control()
ResumeBegin ==
    /\ lifecycle = "Suspended"
    /\ lpc = "idle"
    /\ update_required < MaxPending
    /\ Issue(ResumeOps(model))
    /\ lpc' = "resume_lock"
    /\ LifeFrame
    /\ UNCHANGED <<update_required, update_lock, writer_thread, should_stop,
                   wpc, count, color, wi, lifecycle, unsnapped>>

\* write_lock(&ayaneo_led_mc_update_lock)
ResumeLock ==
    /\ lpc = "resume_lock"
    /\ update_lock = "free"
    /\ update_lock' = "resume"
    /\ lpc' = "resume_bump"
    /\ NoBus
    /\ LifeFrame
    /\ UNCHANGED <<update_required, writer_thread, should_stop, wpc, count,
                   color, wi, lifecycle, unsnapped>>

\* what Resume leaves in ayaneo_led_mc_update_required
Bumped == update_required + 1

\* ayaneo_led_mc_update_required++; write_unlock; kthread_run; return 0
ResumeBump ==
    /\ lpc = "resume_bump"
    /\ update_required' = Bumped
    /\ unsnapped' = unsnapped + 1
    /\ update_lock' = "free"
    /\ ThreadStarts
    /\ lifecycle' = "Active"
    /\ lpc' = "idle"
    /\ NoBus
    /\ LifeFrame

\* the bus operations ayaneo_platform_exit issues after kthread_stop:
\* platform_device_unregister and platform_driver_unregister; the driver
\* registers no remove callback
ExitOps(m) == <<>>

\* ayaneo_platform_exit, up to the wait inside kthread_stop
ExitBegin ==
    /\ lifecycle = "Active"
    /\ lpc = "idle"
    /\ should_stop' = TRUE
    /\ lpc' = "exit_stop"
    /\ NoBus
    /\ LifeFrame
    /\ UNCHANGED <<update_required, update_lock, writer_thread, wpc, count,
                   color, wi, lifecycle, unsnapped>>

\* kthread_stop returns; the two unregister calls
ExitFinish ==
    /\ lpc = "exit_stop"
    /\ ThreadStopped
    /\ Issue(ExitOps(model))
    /\ writer_thread' = "stale"
    /\ lifecycle' = "Exited"
    /\ lpc' = "idle"
    /\ LifeFrame
    /\ UNCHANGED <<update_required, update_lock, should_stop, wpc, count,
                   color, wi, unsnapped>>

Lifecycle ==
    \/ ayaneo_platform_init
    \/ SuspendBegin
    \/ SuspendFinish
    \/ ResumeBegin
    \/ ResumeLock
    \/ ResumeBump
    \/ ExitBegin
    \/ ExitFinish

(***************************************************************************)
(* ayaneo_platform_suspend called again while suspended.  The handle in    *)
(* ayaneo_led_mc_writer_thread then denotes a thread that has exited and   *)
(* whose task_struct kthread_stop has already put: kthread_stop on it is a *)
(* use after free.  It either returns (the freed memory still reads as an  *)
(* exited thread), after which the switch on suspend_mode runs, or faults, *)
(* or never returns (no further step).                                     *)
(***************************************************************************)
SuspendAgainBegin ==
    /\ lifecycle = "Suspended"
    /\ lpc = "idle"
    /\ writer_thread = "stale"
    /\ lpc' = "stop_stale"
    /\ NoBus
    /\ LifeFrame
    /\ UNCHANGED <<update_required, update_lock, writer_thread, should_stop,
                   wpc, count, color, wi, lifecycle, unsnapped>>

SuspendAgainEnd(outcome) ==
    /\ lpc = "stop_stale"
    /\ IF outcome = "returns"
       THEN Issue(SuspendOps(suspend_mode, model)) /\ lifecycle' = lifecycle
       ELSE NoBus /\ lifecycle' = "Crashed"
    /\ lpc' = "idle"
    /\ LifeFrame
    /\ UNCHANGED <<update_required, update_lock, writer_thread, should_stop,
                   wpc, count, color, wi, unsnapped>>

(***************************************************************************)
(* The driver under the power-management core: suspend and resume          *)
(* alternate, and no bus operation meets a busy global lock.               *)
(***************************************************************************)
Next ==
    \/ Writer
    \/ Setter
    \/ \E buf \in SuspendModes \cup {"bogus"} : suspend_mode_store(buf)
    \/ suspend_mode_show
    \/ Lifecycle

Spec == Init /\ [][Next]_vars


(***************************************************************************)
(* Scheduling.  The writer is a kernel thread that is always scheduled     *)
(* again; a call that has entered the driver (a setter past its range      *)
(* check, a lifecycle callback past its first statement) keeps running.    *)
(* rwlock_t is a queued lock: a waiter gets the lock if it is released     *)
(* again and again, hence strong fairness for the acquisitions.  Nothing   *)
(* forces a caller to start a call.                                        *)
(***************************************************************************)
Fairness ==
    /\ WF_vars(W_check \/ W_snap \/ W_apply \/ W_sub \/ W_sleep)
    /\ SF_vars(W_rlock)
    /\ SF_vars(W_wlock)
    /\ SF_vars(SetLock)
    /\ WF_vars(\E ints \in IntensityTriples : SetBody(ints))
    /\ SF_vars(ResumeLock)
    /\ WF_vars(SuspendFinish \/ ResumeBump \/ ExitFinish)

SpecFair == Spec /\ Fairness

(***************************************************************************)
(* C1.  A call to the colour setter that is rejected (brightness or an     *)
(* intensity out of [0,255]) modifies neither ayaneo_led_mc_update_color   *)
(* nor ayaneo_led_mc_update_required, whichever channel is out of range.   *)
(***************************************************************************)
RejectedSetLeavesPendingState ==
    [][(spc' # spc /\ spc' \in {"ret_1331", "ret_1339"})
          => (update_color' = update_color
              /\ update_required' = update_required)]_vars

(***************************************************************************)
(* C2.  While the driver stays Active: once no further setter call is      *)
(* accepted, the writer eventually has completed a cascade whose colour is *)
(* the last accepted target, and ayaneo_led_mc_update_required is 0 again  *)
(* (the writer being scheduled fairly).                                    *)
(***************************************************************************)
LastTargetEventuallyApplied ==
    (/\ <>[][spc' # "ret_1345" \/ spc' = spc]_vars
     /\ <>[](lifecycle = "Active" /\ lpc = "idle"))
        => <>[](update_required = 0 /\ color = last_set)


InCascade == wpc \in {"apply", "wlock", "sub"}

(***************************************************************************)
(* C3.  Coalescing.  When N >= 1 accepted updates were stored since the    *)
(* writer's previous snapshot, its next snapshot takes count = N and the   *)
(* triple of the last of them and starts a cascade; as long as no newer    *)
(* update arrives the cascade is the cascade of that last triple (the      *)
(* colour it has written when it ends is the scaled last triple), and its  *)
(* single subtraction leaves the counter at 0, so no second cascade        *)
(* follows for these N updates.                                            *)
(***************************************************************************)
CoalescedCascade ==
    /\ [](InCascade /\ unsnapped = 0
            => color = last_set /\ count = update_required)
    /\ [](wpc \in {"wlock", "sub"} /\ unsnapped = 0
            => /\ hw.left = Color_l(model, last_set)
               /\ hw.right = Color_r(model, last_set))
    /\ [][(wpc = "snap" /\ wpc' # "snap" /\ unsnapped >= 1)
            => (wpc' = "apply" /\ color' = last_set /\ count' = unsnapped)]_vars
    /\ [][(wpc = "sub" /\ wpc' # "sub" /\ unsnapped = 0)
            => update_required' = 0]_vars

\* two updates were coalesced into one cascade, which has been subtracted
CoalescedTwo ==
    /\ lifecycle = "Active"
    /\ wpc = "check"
    /\ count >= 2
    /\ update_required = 0
    /\ color = last_set
    /\ hw.left = Color_l(model, <<128, 0, 64>>)

(***************************************************************************)
(* C4.  The subtraction removes exactly the snapshot count: after it the   *)
(* counter equals the number k of updates stored since the snapshot, it    *)
(* stays at least k until the writer's next snapshot, and when it is not   *)
(* zero at that snapshot the writer starts another cascade, with the       *)
(* target stored then, instead of sleeping.                                *)
(***************************************************************************)
SubtractsSnapshotCount ==
    /\ [][(wpc = "sub" /\ wpc' # "sub")
            => (update_required' = update_required - count
                /\ update_required' = unsnapped)]_vars
    /\ [](wpc \in {"check", "rlock", "snap", "sleep"}
            => update_required = unsnapped)
    /\ [][(wpc = "snap" /\ wpc' # "snap" /\ update_required > 0)
            => (wpc' = "apply" /\ color' = update_color
                /\ count' = update_required)]_vars

\* an update arrived during the cascade and is still pending after the
\* subtraction, with a newer target than the one just written
UpdateSurvivesSubtraction ==
    /\ lifecycle = "Active"
    /\ wpc = "check"
    /\ count > 0
    /\ update_required > 0
    /\ color # update_color
    /\ update_color = last_set

(***************************************************************************)
(* C5.  ayaneo_led_mc_update_required changes only by +1, in the setter or *)
(* in Resume, or by minus the writer's snapshot count; the thread that     *)
(* changes it holds the write lock; and it is never negative.              *)
(***************************************************************************)
CounterDiscipline ==
    /\ [](update_required >= 0)
    /\ [][update_required' # update_required
            => \/ /\ update_required' = update_required + 1
                  /\ \/ update_lock = "setter" /\ spc = "body"
                     \/ update_lock = "resume" /\ lpc = "resume_bump"
               \/ /\ update_required' = update_required - count
                  /\ update_lock = "writer" /\ wpc = "sub"]_vars

\* the writer holds the write lock and is about to subtract a snapshot
\* smaller than the counter
WriterAboutToSubtract ==
    /\ wpc = "sub"
    /\ update_lock = "writer"
    /\ count >= 1
    /\ update_required > count


\* the driver with a caller that may suspend twice in a row
NextDouble ==
    \/ Next
    \/ SuspendAgainBegin
    \/ \E outcome \in {"returns", "faults"} : SuspendAgainEnd(outcome)

SpecDouble == Init /\ [][NextDouble]_vars

\* the triples an accepted setter call stores, and the initial one
AcceptedTargets ==
    {<<0, 0, 0>>} \cup
    {[i \in 1..3 |-> Val(b, t[i])] :
        b \in {x \in Brightnesses : InRange(x)},
        t \in {y \in IntensityTriples : FirstBad(y) = 4}}

Fns(ops) == [i \in 1..Len(ops) |-> ops[i].fn]

(***************************************************************************)
(* C6.  Once Resume has re-taken control with target T stored, a cascade   *)
(* for T eventually completes (the counter having been incremented and a   *)
(* new writer started), unless a setter changes the target or the driver   *)
(* is suspended or unloaded again first; for every suspend mode.           *)
(***************************************************************************)
ResumeReappliesTarget ==
    \A c \in AcceptedTargets :
        (lpc = "resume_lock" /\ update_color = c)
            ~> \/ /\ wpc \in {"wlock", "sub"}
                  /\ color = c
                  /\ hw.left = Color_l(model, c)
                  /\ hw.right = Color_r(model, c)
               \/ update_color # c
               \/ lpc \in {"suspend_stop", "exit_stop"}

(***************************************************************************)
(* C7.  A second Suspend with no Resume in between does not pass the       *)
(* stale thread handle to kthread_stop, does not fail, and issues no bus   *)
(* operation (no second release-control).                                  *)
(***************************************************************************)
SecondSuspendIsNoOp ==
    /\ [](lpc # "stop_stale")
    /\ [][(lifecycle = "Suspended" /\ lpc \in {"idle", "stop_stale"}
           /\ lpc' # "resume_lock")
            => (lifecycle' = "Suspended" /\ bus_out' = <<>>)]_vars

(***************************************************************************)
(* C8.  After module exit the writer thread has exited and the mode        *)
(* register holds RELEASE: the lighting is owned by the firmware again,    *)
(* whatever suspend_mode is.                                               *)
(***************************************************************************)
ExitReleasesControl ==
    lifecycle = "Exited" => (wpc = "exited" /\ hw.mode = "RELEASE")

(***************************************************************************)
(* C9.  Suspend applies its policy only when the writer thread has exited; *)
(* while the driver is suspended and no lifecycle callback runs, no thread *)
(* is alive and no step issues a bus operation or changes a register, also *)
(* when setter calls store updates meanwhile.                              *)
(***************************************************************************)
SuspendedIsQuiet ==
    /\ [][(lpc = "suspend_stop" /\ lpc' = "idle") => wpc = "exited"]_vars
    /\ [](lifecycle = "Suspended" => wpc = "exited")
    /\ [][(lifecycle = "Suspended" /\ lpc = "idle" /\ lpc' = "idle")
            => (bus_out' = <<>> /\ hw' = hw)]_vars

\* suspended in mode off, and an update was stored after Suspend returned
\* (bus_out no longer shows the take-control of the policy)
UpdateStoredWhileSuspended ==
    /\ lifecycle = "Suspended"
    /\ lpc = "idle"
    /\ suspend_mode = "off"
    /\ bus_out = <<>>
    /\ spc = "ret_1345"
    /\ update_required >= 1
    /\ hw.enable = "off"

(***************************************************************************)
(* C10.  The step that completes Suspend issues exactly the operations of  *)
(* the suspend_mode stored at that moment: oem issues reset, release and   *)
(* leaves the mode register at RELEASE; keep issues nothing and leaves     *)
(* every register as it was; off issues hold, reset, off and leaves the    *)
(* mode register at HOLD with the output disabled.                         *)
(***************************************************************************)
SuspendAppliesPolicy ==
    [][(lpc = "suspend_stop" /\ lpc' = "idle")
        => /\ suspend_mode = "oem"
                => /\ Fns(bus_out') \in {<<"legacy_reset", "legacy_release">>,
                                         <<"reset", "release">>}
                   /\ hw'.mode = "RELEASE"
           /\ suspend_mode = "keep"
                => /\ bus_out' = <<>>
                   /\ hw' = hw
           /\ suspend_mode = "off"
                => /\ Fns(bus_out') \in {<<"legacy_hold", "legacy_reset",
                                           "legacy_off">>,
                                         <<"hold", "reset", "off">>}
                   /\ hw'.mode = "HOLD"
                   /\ hw'.enable = "off"]_vars

\* suspended in mode keep: the registers still hold the last cascade
SuspendedKeepingColor ==
    /\ lifecycle = "Suspended"
    /\ suspend_mode = "keep"
    /\ hw.mode = "HOLD"
    /\ hw.enable = "on"
    /\ hw.left = Color_l(model, <<128, 0, 64>>)
    /\ hw.right = Color_r(model, <<128, 0, 64>>)

(***************************************************************************)
(* The colour arithmetic on its own: ayaneo_led_mc_scale_color on a triple *)
(* and a ceiling, and ayaneo_led_mc_brightness_apply on a triple for each  *)
(* model of the enum.  Every u8 value occurs in every channel of Targets.  *)
(***************************************************************************)
U8 == 0..255

Targets == {<<v, 255 - v, (7 * v) % 256>> : v \in U8}

ScaleArgs == [fn : {"scale"}, color : Targets, max_value : U8]
ApplyArgs == [fn : {"apply"}, color : Targets, max_value : {0}]

\* Bypass-charge control.  The driver's charge code is not part of the
\* sources at hand (the README documents its charge_type attribute); it is
\* modelled from the specification: SetChargeBehavior stores the requested
\* behaviour for the charge worker and fails on a unit without the
\* capability; the worker, started only where the capability is available,
\* issues the write when the applied behaviour differs from the stored one.
ChargeBehaviors == {"auto", "inhibit"}

ChargeArgs ==
    [fn : {"charge"}, available : BOOLEAN, stored : ChargeBehaviors,
     behavior : ChargeBehaviors]

\* the capability flag determined at init
IsChargeBypassAvailable(a) == a.available

\* the behaviour stored when SetChargeBehavior returns
StoredCharge_ungated(a) == a.behavior
StoredCharge(a) ==
    IF IsChargeBypassAvailable(a) THEN a.behavior ELSE a.stored

SetChargeBehavior(a) ==
    [ret |-> IF IsChargeBypassAvailable(a) THEN "Ok"
             ELSE "CapabilityUnavailable",
     stored |-> StoredCharge(a),
     applied |-> a.stored,
     writes |-> <<>>]

InitFn ==
    /\ args \in ScaleArgs \cup ApplyArgs \cup ChargeArgs
    /\ model \in (IF args.fn = "apply" THEN Models ELSE {air})
    /\ result = <<>>
    /\ suspend_mode = "oem"
    /\ update_required = 0
    /\ update_color = <<0, 0, 0>>
    /\ update_lock = "free"
    /\ brightness = 0
    /\ writer_thread = "null"
    /\ should_stop = FALSE
    /\ wpc = "none"
    /\ count = 0
    /\ color = <<0, 0, 0>>
    /\ wi = 1
    /\ spc = "idle"
    /\ lifecycle = "Uninitialized"
    /\ lpc = "idle"
    /\ hw = HwBoot
    /\ bus_out = <<>>
    /\ acpi_busy = FALSE
    /\ busy_periods = 0
    /\ last_set = <<0, 0, 0>>
    /\ unsnapped = 0
    /\ accepted_brightness = 0
    /\ sysfs_out = <<>>

FnFrame ==
    UNCHANGED <<model, suspend_mode, update_required, update_color,
                update_lock, brightness, writer_thread, should_stop, wpc,
                count, color, wi, spc, lifecycle, lpc, hw, bus_out, acpi_busy,
                busy_periods, last_set, unsnapped, accepted_brightness, args,
                sysfs_out>>

\* ayaneo_led_mc_scale_color(color, max_value): the triple it leaves
Call_scale_color ==
    /\ args.fn = "scale"
    /\ result = <<>>
    /\ result' = ayaneo_led_mc_scale_color(args.color, args.max_value)
    /\ FnFrame

\* ayaneo_led_mc_brightness_apply(color): the colour writes it issues
Call_brightness_apply ==
    /\ args.fn = "apply"
    /\ result = <<>>
    /\ result' = AllColorWrites(ApplyOps(model, args.color))
    /\ FnFrame

\* SetChargeBehavior(behavior)
Call_SetChargeBehavior ==
    /\ args.fn = "charge"
    /\ result = <<>>
    /\ result' = <<SetChargeBehavior(args)>>
    /\ FnFrame

\* one interval of the charge worker
ChargeWorker ==
    /\ args.fn = "charge"
    /\ result # <<>>
    /\ IsChargeBypassAvailable(args)
    /\ result[1].applied # result[1].stored
    /\ result' = <<[result[1] EXCEPT
                       !.applied = result[1].stored,
                       !.writes = Append(@, [fn |-> "charge_write",
                                             behavior |-> result[1].stored])]>>
    /\ FnFrame

NextFn ==
    \/ Call_scale_color
    \/ Call_brightness_apply
    \/ Call_SetChargeBehavior
    \/ ChargeWorker

SpecFn == InitFn /\ [][NextFn]_vars

(***************************************************************************)
(* The driver with a model that is none of the enumerators: the switch     *)
(* statements of the three dispatchers take their default case.            *)
(***************************************************************************)
InitUnknown == model = unresolved /\ Unloaded

SpecUnknown == InitUnknown /\ [][Next]_vars

\* the positions of a writer thread that exists and has not exited
WriterAlive == wpc \in {"check", "rlock", "snap", "apply", "wlock", "sub", "sleep"}

(***************************************************************************)
(* C11.  A writer thread is started only in a state a completed            *)
(* take-control has left (mode register HOLD, output disabled, colour      *)
(* registers at their defaults), so no release-control lies between that   *)
(* take-control and the start; while a writer thread is alive the mode     *)
(* register holds HOLD, and every bus operation of a cascade is issued in  *)
(* such a state.                                                           *)
(***************************************************************************)
TakeControlBeforeWriter ==
    /\ [][(~WriterAlive /\ WriterAlive')
            => /\ hw'.mode = "HOLD"
               /\ hw'.enable = "off"
               /\ hw'.left = PowerOn /\ hw'.right = PowerOn]_vars
    /\ [](WriterAlive => hw.mode = "HOLD")
    /\ [][(wpc = "apply" /\ bus_out' # <<>>)
            => (hw.mode = "HOLD" /\ hw'.mode = "HOLD")]_vars

\* a cascade of the writer Resume started (no setter call was ever accepted),
\* under the policy that releases control at Suspend
CascadeAfterResume ==
    /\ lifecycle = "Active"
    /\ suspend_mode = "oem"
    /\ wpc = "apply"
    /\ wi = 2
    /\ last_set = <<0, 0, 0>>
    /\ hw.mode = "HOLD"
    /\ hw.enable = "on"

IntensityFns == {"intensity", "legacy_intensity", "legacy_intensity_kun"}

(***************************************************************************)
(* C12.  No step of the colour setter issues a bus operation or changes a  *)
(* register: a setter step changes nothing but led_cdev.brightness, the    *)
(* target triple, the counter and the lock (and the setter's own           *)
(* position); every step that issues a colour write is a step of the       *)
(* writer thread inside ayaneo_led_mc_brightness_apply.                    *)
(***************************************************************************)
SetterIssuesNoBus ==
    /\ [][spc' # spc
            => /\ bus_out' = <<>>
               /\ hw' = hw
               /\ UNCHANGED <<model, suspend_mode, writer_thread, should_stop,
                              wpc, count, color, wi, lifecycle, lpc,
                              acpi_busy>>]_vars
    /\ [][(\E i \in 1..Len(bus_out') : bus_out'[i].fn \in IntensityFns)
            => (wpc = "apply" /\ wpc' \in {"apply", "wlock"})]_vars

\* an accepted call has returned and its target is stored and counted, but
\* the registers do not hold it yet
TargetStoredNotWritten ==
    /\ lifecycle = "Active"
    /\ spc = "ret_1345"
    /\ bus_out = <<>>
    /\ update_required >= 1
    /\ update_color = <<128, 0, 64>>
    /\ hw.left # Color_l(model, update_color)

(***************************************************************************)
(* C13.  While the writer thread is inside ayaneo_led_mc_brightness_apply  *)
(* it holds neither side of ayaneo_led_mc_update_lock, and no step that    *)
(* issues a bus operation starts or ends with the lock held by the writer  *)
(* or by Resume: the read side is dropped before the cascade, the write    *)
(* side taken after it, and Resume takes the lock only after take-control. *)
(***************************************************************************)
NoLockAcrossBus ==
    /\ [](wpc = "apply" => update_lock \notin {"read", "writer"})
    /\ [](lpc = "resume_lock" => update_lock # "resume")
    /\ [][bus_out' # <<>>
            => /\ update_lock \notin {"read", "writer", "resume"}
               /\ update_lock' \notin {"read", "writer", "resume"}]_vars

\* the writer is in the middle of a cascade while the setter holds the
\* write lock and stores the next target
CascadeWhileSetterStores ==
    /\ wpc = "apply"
    /\ wi = 3
    /\ bus_out # <<>>
    /\ spc = "body"
    /\ update_lock = "setter"

(***************************************************************************)
(* C14.  The writer thread exits only from the test at the top of its      *)
(* loop, with the stop signal set.  A cascade that has started runs        *)
(* through: from inside the cascade the thread goes only to the next bus   *)
(* operation, then to the write lock, then to the subtraction, then back   *)
(* to the loop test.  Hence when the thread exits, the cascade of its last *)
(* snapshot (if it took one with a non-zero count) is fully written and    *)
(* its count is subtracted: the counter holds only the updates stored      *)
(* after that snapshot.                                                    *)
(***************************************************************************)
StopOnlyAtLoopTop ==
    /\ [][(wpc # "exited" /\ wpc' = "exited")
            => /\ wpc = "check" /\ should_stop
               /\ update_required = unsnapped
               /\ count > 0
                    => /\ wi = Len(ApplyOps(model, color)) + 1
                       /\ hw.enable = "on"
                       /\ hw.left = Color_l(model, color)
                       /\ hw.right = Color_r(model, color)]_vars
    /\ [][(wpc = "apply" /\ wpc' # "apply") => wpc' = "wlock"]_vars
    /\ [][(wpc = "apply" /\ wpc' = "apply") => (wi' = wi + 1 \/ wi' = wi)]_vars
    /\ [][(wpc = "wlock" /\ wpc' # "wlock") => wpc' = "sub"]_vars
    /\ [][(wpc = "sub" /\ wpc' # "sub")
            => (wpc' = "check" /\ update_required' = update_required - count)]_vars

\* Suspend has asked the thread to stop while it was in a cascade; the
\* thread has nevertheless written the whole cascade and is about to
\* subtract its count
StopRequestedCascadeCompleted ==
    /\ lpc = "suspend_stop"
    /\ should_stop
    /\ wpc = "sub"
    /\ count >= 1
    /\ hw.left = Color_l(model, color)
    /\ hw.right = Color_r(model, color)

(***************************************************************************)
(* C15.  Under load the writer is not blocked forever: whenever a writer   *)
(* thread is alive and an update is pending, the thread eventually holds   *)
(* the write lock at the end of a cascade (or has been stopped), the       *)
(* writer and the lock acquisitions being scheduled fairly; and each       *)
(* cascade is the cascade of the triple that was stored at its snapshot:   *)
(* the snapshot copies the stored triple, and at the end of the cascade    *)
(* the left and right registers hold that triple, scaled.                  *)
(***************************************************************************)
WriterKeepsCompleting ==
    /\ [][(wpc = "snap" /\ wpc' = "apply") => color' = update_color]_vars
    /\ [](wpc \in {"wlock", "sub"}
            => /\ hw.left = Color_l(model, color)
               /\ hw.right = Color_r(model, color))
    /\ (WriterAlive /\ update_required > 0) ~> (wpc \in {"sub", "exited"})

(***************************************************************************)
(* The driver next to another user of the ACPI global lock (the firmware's *)
(* AML, another driver).  While that party holds the lock,                 *)
(* acpi_acquire_global_lock times out after ACPI_LOCK_DELAY_MS and the bus *)
(* operation returns without having written.                               *)
(***************************************************************************)
AcpiFrame ==
    UNCHANGED <<model, suspend_mode, update_required, update_color,
                update_lock, brightness, writer_thread, should_stop, wpc,
                count, color, wi, spc, lifecycle, lpc, last_set, unsnapped,
                accepted_brightness, args, result>>

\* the other party acquires the global lock
AcpiTaken ==
    /\ ~acpi_busy
    /\ busy_periods < MaxBusy
    /\ acpi_busy' = TRUE
    /\ busy_periods' = busy_periods + 1
    /\ NoBus
    /\ AcpiFrame

\* the other party releases it
AcpiGiven ==
    /\ acpi_busy
    /\ acpi_busy' = FALSE
    /\ busy_periods' = busy_periods
    /\ NoBus
    /\ AcpiFrame

NextBusy ==
    \/ Next
    \/ AcpiTaken
    \/ AcpiGiven

\* explored for one model: every model's cascade fails the same way, one
\* bus operation at a time
InitBusy == Init /\ model = air

SpecBusy == InitBusy /\ [][NextBusy]_vars

(***************************************************************************)
(* The bus functions step by step, next to another user of the ACPI global *)
(* lock.  A function that takes the lock is a list of steps: "lock",       *)
(* "out" (outb(a, b): value a to port b), "ec_write" (ec_write(a, b):      *)
(* value b to register a), "unlock", "delay" and its return.  A call is a  *)
(* list of such functions, run one after the other by a caller that        *)
(* ignores what they return.  result holds the call in progress: op and pc *)
(* (the function and the step that come next), held (this thread holds the *)
(* global lock) and log, the events so far: every step of the driver and   *)
(* every port write of the other party.                                    *)
(*                                                                         *)
(* unlock_global_acpi_lock releases the lock the same function acquired    *)
(* with the handle it got, and succeeds.                                   *)
(***************************************************************************)
AYANEO_ADDR_PORT == 78          \* 0x4e
AYANEO_DATA_PORT == 79          \* 0x4f
AYANEO_HIGH_BYTE == 209         \* 0xd1
AYANEO_LED_MC_ADDR_L == 176     \* 0xb0
AYANEO_LED_MC_ADDR_R == 112     \* 0x70
AYANEO_LED_MC_ADDR_CLOSE_1 == 134   \* 0x86
AYANEO_LED_MC_ADDR_CLOSE_2 == 198   \* 0xc6
AYANEO_LED_MC_MODE_ADDR == 135  \* 0x87
AYANEO_LED_MC_MODE_HOLD == 165  \* 0xa5
AYANEO_LED_PWM_CONTROL == 109   \* 0x6d
AYANEO_LED_POS == 177           \* 0xb1
AYANEO_LED_BRIGHTNESS == 178    \* 0xb2
AYANEO_LED_MODE_REG == 191      \* 0xbf
AYANEO_LED_MODE_RELEASE == 0
AYANEO_LED_MODE_WRITE == 16     \* 0x10
AYANEO_LED_MODE_HOLD == 254     \* 0xfe
EBUSY == 16

Step(k, a, b) == [k |-> k, a |-> a, b |-> b]
Lock == Step("lock", 0, 0)
Unlock == Step("unlock", 0, 0)
Outb(value, port) == Step("out", value, port)
EcWrite(reg, val) == Step("ec_write", reg, val)

\* ec_write_ram(index, val); it returns the local ret, which nothing has
\* assigned
ec_write_ram(index, val) ==
    <<Lock,
      Outb(46, AYANEO_ADDR_PORT), Outb(17, AYANEO_DATA_PORT),
      Outb(47, AYANEO_ADDR_PORT), Outb(AYANEO_HIGH_BYTE, AYANEO_DATA_PORT),
      Outb(46, AYANEO_ADDR_PORT), Outb(16, AYANEO_DATA_PORT),
      Outb(47, AYANEO_ADDR_PORT), Outb(index, AYANEO_DATA_PORT),
      Outb(46, AYANEO_ADDR_PORT), Outb(18, AYANEO_DATA_PORT),
      Outb(47, AYANEO_ADDR_PORT), Outb(val, AYANEO_DATA_PORT),
      Unlock,
      Step("return_ret", 0, 0)>>

\* ayaneo_led_mc_legacy_set(group, pos, brightness)
ayaneo_led_mc_legacy_set(group, pos, b) ==
    <<Lock,
      EcWrite(AYANEO_LED_PWM_CONTROL, group),
      EcWrite(AYANEO_LED_POS, pos),
      EcWrite(AYANEO_LED_BRIGHTNESS, b),
      EcWrite(AYANEO_LED_MODE_REG, AYANEO_LED_MODE_WRITE),
      Unlock,
      Step("delay", 0, 0),
      Lock,
      EcWrite(AYANEO_LED_MODE_REG, AYANEO_LED_MODE_HOLD),
      Unlock,
      Step("return", 0, 0)>>

ayaneo_led_mc_legacy_hold ==
    <<Lock, EcWrite(AYANEO_LED_MODE_REG, AYANEO_LED_MODE_HOLD), Unlock,
      Step("return", 0, 0)>>

ayaneo_led_mc_legacy_release ==
    <<Lock, EcWrite(AYANEO_LED_MODE_REG, AYANEO_LED_MODE_RELEASE), Unlock,
      Step("return", 0, 0)>>

\* read_from_ec(reg, size, val) and write_to_ec(reg, val) of the driver's
\* earlier version: ec_read and ec_write report a status, which these two
\* functions look at
read_from_ec(reg, size) ==
    <<Lock>> \o [i \in 1..size |-> Step("ec_read", reg + i - 1, 0)]
        \o <<Unlock, Step("return_status", 0, 0)>>

write_to_ec(reg, val) ==
    <<Lock, Step("ec_write_ret", reg, val), Unlock,
      Step("return_status", 0, 0)>>

\* an ayaneo_led_mc_set that commits both groups at 0x86
ayaneo_led_mc_set_one_close(group, pos, b) ==
    IF group < 2
    THEN <<ec_write_ram(AYANEO_LED_MC_ADDR_L + pos, b),
           ec_write_ram(AYANEO_LED_MC_ADDR_CLOSE_1, 1)>>
    ELSE <<ec_write_ram(AYANEO_LED_MC_ADDR_R + pos, b),
           ec_write_ram(AYANEO_LED_MC_ADDR_CLOSE_1, 1)>>

\* ayaneo_led_mc_set(group, pos, brightness): two calls of ec_write_ram
ayaneo_led_mc_set(group, pos, b) ==
    IF group < 2
    THEN <<ec_write_ram(AYANEO_LED_MC_ADDR_L + pos, b),
           ec_write_ram(AYANEO_LED_MC_ADDR_CLOSE_2, 1)>>
    ELSE <<ec_write_ram(AYANEO_LED_MC_ADDR_R + pos, b),
           ec_write_ram(AYANEO_LED_MC_ADDR_CLOSE_1, 1)>>

\* the functions a call runs, in order
Calls(a) ==
    CASE a.fn = "ec_write_ram" -> <<ec_write_ram(a.pos, a.val)>>
      [] a.fn = "ayaneo_led_mc_set" -> ayaneo_led_mc_set(a.group, a.pos, a.val)
      [] a.fn = "ayaneo_led_mc_legacy_set" ->
             <<ayaneo_led_mc_legacy_set(a.group, a.pos, a.val)>>
      [] a.fn = "ayaneo_led_mc_legacy_hold" -> <<ayaneo_led_mc_legacy_hold>>
      [] a.fn = "ayaneo_led_mc_legacy_release" -> <<ayaneo_led_mc_legacy_release>>
      [] a.fn = "read_from_ec" -> <<read_from_ec(a.reg, a.size)>>
      [] a.fn = "write_to_ec" -> <<write_to_ec(a.reg, a.val)>>
      [] a.fn = "ayaneo_led_mc_legacy_intensity_single" ->
             <<ayaneo_led_mc_legacy_set(a.group, a.zone, a.color[1]),
               ayaneo_led_mc_legacy_set(a.group, a.zone + 1, a.color[2]),
               ayaneo_led_mc_legacy_set(a.group, a.zone + 2, a.color[3])>>

PortArgs ==
    [fn : {"ec_write_ram"}, group : {0},
     pos : {AYANEO_LED_MC_MODE_ADDR}, val : {0, AYANEO_LED_MC_MODE_HOLD}]
    \cup [fn : {"ayaneo_led_mc_set", "ayaneo_led_mc_legacy_set"},
          group : {AYANEO_LED_GROUP_LEFT, AYANEO_LED_GROUP_RIGHT},
          pos : {3}, val : {51}]
    \cup [fn : {"ayaneo_led_mc_legacy_intensity_single"},
          group : {AYANEO_LED_GROUP_LEFT}, color : {<<51, 0, 255>>},
          zone : {3}]
    \cup [fn : {"ayaneo_led_mc_legacy_hold", "ayaneo_led_mc_legacy_release"},
          group : {0}, pos : {0}, val : {0}]
    \cup [fn : {"read_from_ec"}, reg : {AYANEO_LED_MC_ADDR_L + 3},
          size : {1, 2}]
    \cup [fn : {"write_to_ec"}, reg : {AYANEO_LED_MC_ADDR_L + 3}, val : {51}]

\* the values an int that was never assigned may hold
UninitInts == {0 - EBUSY, 0, 1}


InitPort ==
    /\ args \in PortArgs
    /\ result = [op |-> 1, pc |-> 1, held |-> FALSE, log |-> <<>>]
    /\ model = air_plus
    /\ suspend_mode = "oem"
    /\ update_required = 0
    /\ update_color = <<0, 0, 0>>
    /\ update_lock = "free"
    /\ brightness = 0
    /\ writer_thread = "null"
    /\ should_stop = FALSE
    /\ wpc = "none"
    /\ count = 0
    /\ color = <<0, 0, 0>>
    /\ wi = 1
    /\ spc = "idle"
    /\ lifecycle = "Uninitialized"
    /\ lpc = "idle"
    /\ hw = HwBoot
    /\ bus_out = <<>>
    /\ acpi_busy = FALSE
    /\ busy_periods = 0
    /\ last_set = <<0, 0, 0>>
    /\ unsnapped = 0
    /\ accepted_brightness = 0
    /\ sysfs_out = <<>>

PortFrame ==
    UNCHANGED <<model, suspend_mode, update_required, update_color,
                update_lock, brightness, writer_thread, should_stop, wpc,
                count, color, wi, spc, lifecycle, lpc, hw, bus_out, acpi_busy,
                busy_periods, last_set, unsnapped, accepted_brightness, args,
                sysfs_out>>

\* the call has a step left, and that step
Running == result.op <= Len(Calls(args))
Cur == Calls(args)[result.op][result.pc]

Event(who, k, a, b) ==
    [who |-> who, k |-> k, a |-> a, b |-> b, op |-> result.op]

\* acpi_acquire_global_lock succeeds unless the other party keeps the lock
\* for the whole of ACPI_LOCK_DELAY_MS
lock_global_acpi_lock_unchecked == TRUE
lock_global_acpi_lock == ~acpi_busy

\* if (!lock_global_acpi_lock()) return ...: the function is left, and the
\* caller goes on to the next one
OnLockFailure(r) == [r EXCEPT !.op = @ + 1, !.pc = 1]

\* what a function that gave up on the lock returns: -EBUSY from
\* ec_write_ram, nothing from the void functions
FailureReturn(f) ==
    IF f[Len(f)].k \in {"return_ret", "return_status"}
    THEN <<Event("driver", "return", 0 - EBUSY, 0)>>
    ELSE <<>>

P_lock ==
    /\ Running
    /\ Cur.k = "lock"
    /\ lock_global_acpi_lock
    /\ result' = [result EXCEPT !.held = TRUE, !.pc = @ + 1,
                     !.log = Append(@, Event("driver", "lock", 0, 0))]
    /\ PortFrame

P_timeout ==
    /\ Running
    /\ Cur.k = "lock"
    /\ ~lock_global_acpi_lock
    /\ result' = OnLockFailure(
                     [result EXCEPT !.log =
                          Append(@, Event("driver", "timeout", 0, 0))
                          \o FailureReturn(Calls(args)[result.op])])
    /\ PortFrame

\* outb or ec_write
P_write ==
    /\ Running
    /\ Cur.k \in {"out", "ec_write"}
    /\ result' = [result EXCEPT !.pc = @ + 1,
                     !.log = Append(@, Event("driver", Cur.k, Cur.a, Cur.b))]
    /\ PortFrame

P_unlock ==
    /\ Running
    /\ Cur.k = "unlock"
    /\ result' = [result EXCEPT !.held = FALSE, !.pc = @ + 1,
                     !.log = Append(@, Event("driver", "unlock", 0, 0))]
    /\ PortFrame

\* mdelay
P_delay ==
    /\ Running
    /\ Cur.k = "delay"
    /\ result' = [result EXCEPT !.pc = @ + 1]
    /\ PortFrame

\* the end of a void function
P_return ==
    /\ Running
    /\ Cur.k = "return"
    /\ result' = [result EXCEPT !.op = @ + 1, !.pc = 1]
    /\ PortFrame

\* return ret; of ec_write_ram
P_return_ret ==
    /\ Running
    /\ Cur.k = "return_ret"
    /\ \E ret \in UninitInts :
           result' = [result EXCEPT !.op = @ + 1, !.pc = 1,
                        !.log = Append(@, Event("driver", "return", ret, 0))]
    /\ PortFrame

\* ec_read(reg, &buffer) in read_from_ec, ret = ec_write(reg, val) in
\* write_to_ec: the access succeeds or reports an error; read_from_ec
\* returns the error at once, write_to_ec after its unlock
P_access ==
    /\ Running
    /\ Cur.k \in {"ec_read", "ec_write_ret"}
    /\ \/ result' = [result EXCEPT !.pc = @ + 1,
                        !.log = Append(@, Event("driver", Cur.k, Cur.a, Cur.b))]
       \/ /\ Cur.k = "ec_read"
          /\ result' = [result EXCEPT !.op = @ + 1, !.pc = 1,
                          !.log = @ \o <<Event("driver", "failed", Cur.a, Cur.b),
                                         Event("driver", "return", -1, 0)>>]
       \/ /\ Cur.k = "ec_write_ret"
          /\ result' = [result EXCEPT !.pc = @ + 1,
                          !.log = Append(@, Event("driver", "failed", Cur.a,
                                                  Cur.b))]
    /\ PortFrame

\* return 0 of read_from_ec, return ret of write_to_ec: the status of the
\* register access
P_return_status ==
    /\ Running
    /\ Cur.k = "return_status"
    /\ LET failed == \E n \in 1..Len(result.log) :
                         /\ result.log[n].op = result.op
                         /\ result.log[n].k = "failed"
       IN  result' = [result EXCEPT !.op = @ + 1, !.pc = 1,
                        !.log = Append(@, Event("driver", "return",
                                                IF failed THEN -1 ELSE 0, 0))]
    /\ PortFrame

\* The other user of the global lock: it takes the lock when the driver
\* does not hold it, writes the index ports only while it holds the lock,
\* and releases it.
OtherEvents == {i \in 1..Len(result.log) : result.log[i].who = "other"}

OtherTakes == ~result.held /\ AcpiTaken

OtherWrites ==
    /\ acpi_busy
    /\ Cardinality(OtherEvents) < MaxOtherWrites
    /\ result' = [result EXCEPT !.log =
                        Append(@, [who |-> "other", k |-> "out", a |-> 46,
                                   b |-> AYANEO_ADDR_PORT, op |-> 0])]
    /\ PortFrame

OtherGives == AcpiGiven

NextPort ==
    \/ P_lock
    \/ P_timeout
    \/ P_write
    \/ P_unlock
    \/ P_delay
    \/ P_return
    \/ P_return_ret
    \/ P_access
    \/ P_return_status
    \/ OtherTakes
    \/ OtherWrites
    \/ OtherGives

SpecPort == InitPort /\ [][NextPort]_vars

(***************************************************************************)
(* The bus operations down to the registers.  Each operation is the list   *)
(* of bus functions it calls; with no acquisition of the global lock       *)
(* failing, every function makes all its writes: a legacy function its     *)
(* ec_write calls, ec_write_ram(index, val) the write of val at index that *)
(* its port sequence carries.                                              *)
(***************************************************************************)
AYANEO_LED_MC_ENABLE_ADDR == 178    \* 0xb2
AYANEO_LED_MC_ENABLE_ON == 177      \* 0xb1
AYANEO_LED_MC_ENABLE_OFF == 49      \* 0x31
AYANEO_LED_MC_ENABLE_RESET == 192   \* 0xc0
AYANEO_LED_MC_MODE_RELEASE == 0
AYANEO_LED_CMD_ENABLE_ADDR == 2
AYANEO_LED_CMD_ENABLE_ON == 177     \* 0xb1
AYANEO_LED_CMD_ENABLE_OFF == 49     \* 0x31
AYANEO_LED_CMD_ENABLE_RESET == 192  \* 0xc0

ayaneo_led_mc_release ==
    <<ec_write_ram(AYANEO_LED_MC_MODE_ADDR, AYANEO_LED_MC_MODE_RELEASE)>>

ayaneo_led_mc_hold ==
    <<ec_write_ram(AYANEO_LED_MC_MODE_ADDR, AYANEO_LED_MC_MODE_HOLD)>>

ayaneo_led_mc_off ==
    <<ec_write_ram(AYANEO_LED_MC_ENABLE_ADDR, AYANEO_LED_MC_ENABLE_OFF),
      ec_write_ram(AYANEO_LED_MC_ADDR_CLOSE_1, 1)>>

ayaneo_led_mc_on ==
    <<ec_write_ram(AYANEO_LED_MC_ENABLE_ADDR, AYANEO_LED_MC_ENABLE_ON),
      ec_write_ram(AYANEO_LED_MC_ADDR_CLOSE_1, 1)>>

ayaneo_led_mc_reset ==
    <<ec_write_ram(AYANEO_LED_MC_ENABLE_ADDR, AYANEO_LED_MC_ENABLE_RESET),
      ec_write_ram(AYANEO_LED_MC_ADDR_CLOSE_1, 1)>>

\* ayaneo_led_mc_legacy_off, _on and _reset: the command to the left and to
\* the right group, then the closing set
LegacyCommand(cmd) ==
    <<ayaneo_led_mc_legacy_set(AYANEO_LED_GROUP_LEFT,
                               AYANEO_LED_CMD_ENABLE_ADDR, cmd),
      ayaneo_led_mc_legacy_set(AYANEO_LED_GROUP_RIGHT,
                               AYANEO_LED_CMD_ENABLE_ADDR, cmd),
      ayaneo_led_mc_legacy_set(AYANEO_LED_GROUP_LEFT_RIGHT, 0, 0)>>

ayaneo_led_mc_legacy_off == LegacyCommand(AYANEO_LED_CMD_ENABLE_OFF)
ayaneo_led_mc_legacy_on == LegacyCommand(AYANEO_LED_CMD_ENABLE_ON)
ayaneo_led_mc_legacy_reset == LegacyCommand(AYANEO_LED_CMD_ENABLE_RESET)

\* one ayaneo_led_mc_set, or one ayaneo_led_mc_legacy_set, per colour write
RECURSIVE SetPrograms(_)
SetPrograms(ws) ==
    IF ws = <<>> THEN <<>>
    ELSE ayaneo_led_mc_set(Head(ws).group, Head(ws).pos, Head(ws).val)
            \o SetPrograms(Tail(ws))

RECURSIVE LegacySetPrograms(_)
LegacySetPrograms(ws) ==
    IF ws = <<>> THEN <<>>
    ELSE <<ayaneo_led_mc_legacy_set(Head(ws).group, Head(ws).pos,
                                    Head(ws).val)>>
            \o LegacySetPrograms(Tail(ws))

\* the bus functions one bus operation calls
OpPrograms(op) ==
    CASE op.fn = "legacy_hold" -> <<ayaneo_led_mc_legacy_hold>>
      [] op.fn = "legacy_release" -> <<ayaneo_led_mc_legacy_release>>
      [] op.fn = "legacy_reset" -> ayaneo_led_mc_legacy_reset
      [] op.fn = "legacy_off" -> ayaneo_led_mc_legacy_off
      [] op.fn = "legacy_on" -> ayaneo_led_mc_legacy_on
      [] op.fn = "hold" -> ayaneo_led_mc_hold
      [] op.fn = "release" -> ayaneo_led_mc_release
      [] op.fn = "reset" -> ayaneo_led_mc_reset
      [] op.fn = "off" -> ayaneo_led_mc_off
      [] op.fn = "on" -> ayaneo_led_mc_on
      [] op.fn = "intensity" -> SetPrograms(ColorWrites(op))
      [] op.fn \in {"legacy_intensity", "legacy_intensity_kun"} ->
             LegacySetPrograms(ColorWrites(op))

RECURSIVE AllPrograms(_)
AllPrograms(ops) ==
    IF ops = <<>> THEN <<>>
    ELSE OpPrograms(Head(ops)) \o AllPrograms(Tail(ops))

\* the register writes of one bus function
RegisterWrites(f) ==
    IF f[Len(f)].k = "return_ret"
    THEN <<[reg |-> f[9].a, val |-> f[13].a]>>
    ELSE LET w == SelectSeq(f, LAMBDA st : st.k = "ec_write")
         IN  [n \in 1..Len(w) |-> [reg |-> w[n].a, val |-> w[n].b]]

RECURSIVE AllRegisterWrites(_)
AllRegisterWrites(fs) ==
    IF fs = <<>> THEN <<>>
    ELSE RegisterWrites(Head(fs)) \o AllRegisterWrites(Tail(fs))

RegArgs ==
    [fn : {"take_control", "release_control"}, color : {NoColor}]
    \cup [fn : {"brightness_apply"}, color : Targets]

InitReg ==
    /\ args \in RegArgs
    /\ model \in Models
    /\ result = <<>>
    /\ suspend_mode = "oem"
    /\ update_required = 0
    /\ update_color = <<0, 0, 0>>
    /\ update_lock = "free"
    /\ brightness = 0
    /\ writer_thread = "null"
    /\ should_stop = FALSE
    /\ wpc = "none"
    /\ count = 0
    /\ color = <<0, 0, 0>>
    /\ wi = 1
    /\ spc = "idle"
    /\ lifecycle = "Uninitialized"
    /\ lpc = "idle"
    /\ hw = HwBoot
    /\ bus_out = <<>>
    /\ acpi_busy = FALSE
    /\ busy_periods = 0
    /\ last_set = <<0, 0, 0>>
    /\ unsnapped = 0
    /\ accepted_brightness = 0
    /\ sysfs_out = <<>>

\* ayaneo_led_mc_take_control()
Call_take_control ==
    /\ args.fn = "take_control"
    /\ result = <<>>
    /\ result' = AllRegisterWrites(AllPrograms(TakeControlOps(model)))
    /\ FnFrame

\* ayaneo_led_mc_release_control()
Call_release_control ==
    /\ args.fn = "release_control"
    /\ result = <<>>
    /\ result' = AllRegisterWrites(AllPrograms(ReleaseControlOps(model)))
    /\ FnFrame

\* ayaneo_led_mc_brightness_apply(color), down to the registers
Call_brightness_apply_registers ==
    /\ args.fn = "brightness_apply"
    /\ result = <<>>
    /\ result' = AllRegisterWrites(AllPrograms(ApplyOps(model, args.color)))
    /\ FnFrame

NextReg ==
    \/ Call_take_control
    \/ Call_release_control
    \/ Call_brightness_apply_registers

SpecReg == InitReg /\ [][NextReg]_vars

\* at the end of a cascade: some register the cascade writes does not hold
\* what the cascade was to write there
CascadeFailed ==
    \/ hw.enable # "on"
    \/ hw.left # Color_l(model, color)
    \/ hw.right # Color_r(model, color)

(***************************************************************************)
(* C16.  When a bus operation of a cascade has failed because the global   *)
(* lock was busy, the writer thread goes on with its loop, and the update  *)
(* is still pending after the writer's subtraction (the counter is not 0), *)
(* so that the next iteration starts a cascade for it.                     *)
(***************************************************************************)
FailedCascadeStaysPending ==
    [][(wpc = "sub" /\ wpc' # "sub" /\ CascadeFailed)
        => (wpc' = "check" /\ update_required' >= 1)]_vars

(***************************************************************************)
(* C17.  ayaneo_led_mc_scale_color leaves in each channel                  *)
(* floor(v * ceiling / 255), or 1 where that is 0 and v > 0, v being the   *)
(* channel's value before the call; for all v and ceiling in 0..255 the    *)
(* result is in 0..255, is at most max(ceiling, 1), is 0 exactly when v is *)
(* 0, and is not smaller than the result for v - 1.                        *)
(***************************************************************************)
ScaleColorRule ==
    (args.fn = "scale" /\ result # <<>>)
        => \A i \in 1..3 :
             LET v == args.color[i]
                 ceiling == args.max_value
                 floored == (v * ceiling) \div 255
                 r == result[i]
             IN  /\ r = (IF floored = 0 /\ v > 0 THEN 1 ELSE floored)
                 /\ r \in 0..255
                 /\ r <= (IF ceiling > 1 THEN ceiling ELSE 1)
                 /\ (r = 0) <=> (v = 0)
                 /\ v > 0 => ScaleChannel(v - 1, ceiling) <= r

\* the clamp at work: 1 scaled to the ceiling 64 is 1, and 255 is 64
ScaledWithClamp ==
    /\ args.fn = "scale"
    /\ args.max_value = 64
    /\ args.color = <<1, 254, 7>>
    /\ result = <<1, 63, 1>>

(***************************************************************************)
(* C18.  For every model of the enum and every target, each colour write   *)
(* of the cascade carries a value of at least 1 when the target's channel  *)
(* it carries is not 0, and the value 0 when that channel is 0; so for     *)
(* each channel the writes to the left group are 0 exactly when the writes *)
(* to the right group are.                                                 *)
(***************************************************************************)
NonZeroStaysLit ==
    (args.fn = "apply" /\ result # <<>>)
        => /\ \A k \in 1..Len(result) :
                LET w == result[k]
                IN  w.ch # 0
                      => /\ args.color[w.ch] > 0 => w.val >= 1
                         /\ args.color[w.ch] = 0 => w.val = 0
           /\ \A k, l \in 1..Len(result) :
                (/\ result[k].group = AYANEO_LED_GROUP_LEFT
                 /\ result[l].group = AYANEO_LED_GROUP_RIGHT
                 /\ result[k].ch = result[l].ch)
                    => ((result[k].val = 0) <=> (result[l].val = 0))

\* AIR Plus, red target 1: the right group (ceiling 32) still gets a 1
DimTargetStillLit ==
    /\ args.fn = "apply"
    /\ model = air_plus
    /\ args.color = <<1, 254, 7>>
    /\ result # <<>>
    /\ \E k \in 1..Len(result) :
          /\ result[k].group = AYANEO_LED_GROUP_RIGHT
          /\ result[k].ch = 1
          /\ result[k].val = 1

\* the ceiling of a group on a model, as the claim C19 lists them
ClaimedCeiling(m, group) ==
    IF m \in {air_plus, air_plus_mendo}
    THEN (IF group = AYANEO_LED_GROUP_LEFT THEN 64 ELSE 32)
    ELSE IF m \in {air, air_pro, air_1s} /\ group = AYANEO_LED_GROUP_LEFT THEN 69
    ELSE IF m = air_1s_limited /\ group = AYANEO_LED_GROUP_RIGHT THEN 204
    ELSE 192

(***************************************************************************)
(* C19.  For every model of the enum and every target, each colour write   *)
(* of the cascade to the left or to the right group carries the scaling    *)
(* rule applied once to the target's channel with the ceiling of that      *)
(* group on that model: floor(v * ceiling / 255), or 1 where that is 0 and *)
(* v > 0; and except on the KUN, whose zones map the channels differently, *)
(* the R, G and B values are written at zone, zone + 1 and zone + 2 of     *)
(* each of the four zones.                                                 *)
(***************************************************************************)
CascadeScalesOnce ==
    (args.fn = "apply" /\ result # <<>>)
        => \A k \in 1..Len(result) :
             LET w == result[k]
             IN  (w.ch # 0 /\ w.group \in {AYANEO_LED_GROUP_LEFT,
                                          AYANEO_LED_GROUP_RIGHT})
                   => LET v == args.color[w.ch]
                          ceiling == ClaimedCeiling(model, w.group)
                          floored == (v * ceiling) \div 255
                      IN  /\ w.val = (IF floored = 0 /\ v > 0 THEN 1
                                                               ELSE floored)
                          /\ model # kun
                               => \E z \in 1..4 : w.pos = zones[z] + w.ch - 1

\* the scaling rule, written out
Rule(v, ceiling) ==
    IF (v * ceiling) \div 255 = 0 /\ v > 0 THEN 1 ELSE (v * ceiling) \div 255

(***************************************************************************)
(* C19, amended.  For every model of the enum and every target, each       *)
(* colour write of the cascade to the left or to the right group carries   *)
(* the scaling rule applied to the target's channel with the ceiling 192   *)
(* and then, for a group with a ceiling of its own on that model (64 left  *)
(* and 32 right on AIR Plus and AIR Plus Mendocino, 69 left on AIR, AIR    *)
(* Pro and AIR 1S, 204 right on AIR 1S Limited), applied again to that     *)
(* result with that ceiling.  Each channel is written once in each of the  *)
(* four zones of both groups; except on the KUN the R, G and B values are  *)
(* written at zone, zone + 1 and zone + 2.                                 *)
(***************************************************************************)
CascadeScalesTwice ==
    (args.fn = "apply" /\ result # <<>>)
        => /\ \A k \in 1..Len(result) :
                LET w == result[k]
                IN  (w.ch # 0 /\ w.group \in {AYANEO_LED_GROUP_LEFT,
                                             AYANEO_LED_GROUP_RIGHT})
                      => LET v == args.color[w.ch]
                             ceiling == ClaimedCeiling(model, w.group)
                         IN  /\ w.val = (IF ceiling = 192 THEN Rule(v, 192)
                                         ELSE Rule(Rule(v, 192), ceiling))
                             /\ model # kun
                                  => \E z \in 1..4 :
                                        w.pos = zones[z] + w.ch - 1
           /\ \A group \in {AYANEO_LED_GROUP_LEFT, AYANEO_LED_GROUP_RIGHT},
                 z \in 1..4, ch \in 1..3 :
                Cardinality({k \in 1..Len(result) :
                                /\ result[k].group = group
                                /\ result[k].ch = ch
                                /\ result[k].pos \in zones[z]..(zones[z] + 2)})
                    = 1

\* AIR, target green 255: 51 at the green address of the left zones (192,
\* then 69), 192 at the right ones
AirGreenTwiceScaled ==
    /\ args.fn = "apply"
    /\ model = air
    /\ args.color = <<0, 255, 0>>
    /\ result # <<>>
    /\ \E k, l \in 1..Len(result) :
          /\ result[k] = Write(AYANEO_LED_GROUP_LEFT, 4, 51, 2)
          /\ result[l] = Write(AYANEO_LED_GROUP_RIGHT, 4, 192, 2)

(***************************************************************************)
(* C20.  Whenever no setter call is in progress, the getter returns the    *)
(* brightness of the most recent accepted setter call (0 before the first  *)
(* one), whether or not the writer has applied that call's target; so a    *)
(* call that is rejected leaves the getter's value as it was.              *)
(***************************************************************************)
GetterReturnsLastAccepted ==
    spc \in Returned => ayaneo_led_mc_brightness_get = accepted_brightness

\* the channels written at zone, zone + 1, zone + 2 of a group, in that order
ZoneOrder(group, zone) ==
    [k \in 1..3 |->
        LET ws == {i \in 1..Len(result) : /\ result[i].group = group
                                          /\ result[i].pos = zone + k - 1}
        IN  IF Cardinality(ws) = 1 THEN result[CHOOSE i \in ws : TRUE].ch ELSE 0]

\* the rotations of (R, G, B)
Rotations == {<<1, 2, 3>>, <<2, 3, 1>>, <<3, 1, 2>>}

JoystickGroups == {AYANEO_LED_GROUP_LEFT, AYANEO_LED_GROUP_RIGHT}

(***************************************************************************)
(* C21.  On the KUN the cascade writes, in each of the four zones (3, 6,   *)
(* 9, 12) of the left and of the right group, the three channels in an     *)
(* order that is a rotation of (R, G, B), and the orders of the four zones *)
(* are pairwise different.                                                 *)
(***************************************************************************)
KunZonesRotated ==
    (args.fn = "apply" /\ model = kun /\ result # <<>>)
        => \A group \in JoystickGroups :
             /\ \A z \in 1..4 : ZoneOrder(group, zones[z]) \in Rotations
             /\ \A y, z \in 1..4 :
                   y # z => ZoneOrder(group, zones[y]) # ZoneOrder(group, zones[z])

(***************************************************************************)
(* C21, amended.  On the KUN the cascade writes, in each of the four zones *)
(* of the left and of the right group, the three channels of the scaled    *)
(* target in an order that is a permutation of (R, G, B): (G, R, B) at     *)
(* zone 3, (G, B, R) at zone 6, (B, R, G) at zone 9 and (B, G, R) at zone  *)
(* 12.  The four orders are pairwise different; those of zones 6 and 9 are *)
(* rotations, those of zones 3 and 12 are not.                             *)
(***************************************************************************)
KunZonesPermuted ==
    (args.fn = "apply" /\ model = kun /\ result # <<>>)
        => \A group \in JoystickGroups :
             /\ ZoneOrder(group, 3) = <<2, 1, 3>>
             /\ ZoneOrder(group, 6) = <<2, 3, 1>>
             /\ ZoneOrder(group, 9) = <<3, 1, 2>>
             /\ ZoneOrder(group, 12) = <<3, 2, 1>>
             /\ \A z \in 1..4 :
                   {ZoneOrder(group, zones[z])[k] : k \in 1..3} = {1, 2, 3}
             /\ \A y, z \in 1..4 :
                   y # z => ZoneOrder(group, zones[y]) # ZoneOrder(group, zones[z])
             /\ \A i \in 1..Len(result) :
                   (result[i].group = group /\ result[i].ch # 0)
                      => result[i].val = Rule(args.color[result[i].ch], 192)

\* KUN, target green 255: green is the first value of zone 3 and the
\* second of zone 12
KunGreenPlaced ==
    /\ args.fn = "apply"
    /\ model = kun
    /\ args.color = <<0, 255, 0>>
    /\ result # <<>>
    /\ \E i, j \in 1..Len(result) :
          /\ result[i] = Write(AYANEO_LED_GROUP_LEFT, 3, 192, 2)
          /\ result[j] = Write(AYANEO_LED_GROUP_RIGHT, 13, 192, 2)

(***************************************************************************)
(* C22.  With a model that is none of the enumerators no step issues a bus *)
(* operation and no register ever changes, through init, cascades, every   *)
(* suspend policy and resume; the counter bookkeeping is as for a          *)
(* supported model: an accepted setter call adds 1, a pending count at the *)
(* snapshot starts a cascade with the stored target, and the writer        *)
(* subtracts its snapshot count at the end of it.                          *)
(***************************************************************************)
UnknownModelNoOps ==
    /\ [](model = unresolved)
    /\ [][bus_out' = <<>> /\ hw' = hw]_vars
    /\ [](hw = HwBoot /\ bus_out = <<>>)
    /\ [][(spc = "body" /\ spc' = "ret_1345")
            => update_required' = update_required + 1]_vars
    /\ [][(wpc = "snap" /\ wpc' # "snap" /\ update_required > 0)
            => (wpc' = "apply" /\ count' = update_required
                /\ color' = update_color)]_vars
    /\ [][(wpc = "apply" /\ wpc' # "apply") => wpc' = "wlock"]_vars
    /\ [][(wpc = "sub" /\ wpc' # "sub")
            => update_required' = update_required - count]_vars

\* unknown model: the writer has run a cascade for an accepted target and
\* subtracted it, and the registers are as the firmware left them
EmptyCascadeCounted ==
    /\ model = unresolved
    /\ lifecycle = "Active"
    /\ wpc = "check"
    /\ count >= 1
    /\ color = <<128, 0, 64>>
    /\ update_required = 0
    /\ hw = HwBoot

(***************************************************************************)
(* C23..C25: the port-level bus functions under SpecPort                   *)
(***************************************************************************)
\* the log positions of the driver's events of kind k in function i
DriverAt(i, k) ==
    {n \in 1..Len(result.log) :
        /\ result.log[n].who = "driver"
        /\ result.log[n].op = i
        /\ result.log[n].k = k}

\* the functions of the call
Ops == 1..Len(Calls(args))

\* the call is made of ec_write_ram only
RamCall == args.fn \in {"ec_write_ram", "ayaneo_led_mc_set"}

\* the n-th port write of one ec_write_ram, as far as the sequence is fixed:
\* ports 0x4e, 0x4f alternately; 0x2e, 0x2f alternately on 0x4e; the data
\* bytes 0x11, 0xd1, 0x10, (index), 0x12, (value) on 0x4f
FixedPortWrite(n, e) ==
    /\ e.b = (IF n % 2 = 1 THEN 78 ELSE 79)
    /\ n % 4 = 1 => e.a = 46
    /\ n % 4 = 3 => e.a = 47
    /\ n = 2 => e.a = 17
    /\ n = 4 => e.a = 209
    /\ n = 6 => e.a = 16
    /\ n = 10 => e.a = 18

\* C23: every port write of ec_write_ram is made while the driver holds the
\* global lock; the port writes of one ec_write_ram follow its acquisition
\* and precede its release, are the fixed sequence (select 0x11, high byte
\* 0xd1, select 0x10, index, select 0x12, value, each through 0x4e then
\* 0x4f), twelve at most, and no port write of the other user of the lock
\* lies between the acquisition and the last of them; and the two never
\* hold the lock at once.
RamWritesInOneSection ==
    RamCall =>
        /\ ~(result.held /\ acpi_busy)
        /\ \A i \in Ops :
              LET outs == DriverAt(i, "out")
                  locks == DriverAt(i, "lock")
                  unlocks == DriverAt(i, "unlock")
              IN  /\ Cardinality(outs) <= 12
                  /\ Cardinality(locks) <= 1
                  /\ outs # {} => locks # {}
                  /\ \A n \in outs :
                        /\ \A l \in locks : l < n
                        /\ \A u \in unlocks : n < u
                        /\ FixedPortWrite(Cardinality({m \in outs : m <= n}),
                                          result.log[n])
                        /\ \A l \in locks : \A m \in l..n :
                              result.log[m].who = "driver"
                  /\ unlocks # {} => Cardinality(outs) = 12
                  /\ args.fn = "ec_write_ram" =>
                        \A n \in outs :
                           LET c == Cardinality({m \in outs : m <= n})
                           IN  /\ c = 8 => result.log[n].a = args.pos
                               /\ c = 12 => result.log[n].a = args.val

\* ec_write_ram has released the lock after its twelve writes, and the other
\* user of the lock has written the ports before it or after it
RamSectionNextToOther ==
    /\ args.fn = "ec_write_ram"
    /\ DriverAt(1, "unlock") # {}
    /\ Cardinality(DriverAt(1, "out")) = 12
    /\ OtherEvents # {}

\* C24: a bus function in which an acquisition of the global lock failed has
\* issued no port write and no register write, made the failed attempt once
\* and not again, and has been left, with its caller at the next function of
\* the sequence.
LockFailureAbandonsOperation ==
    \A i \in Ops :
        DriverAt(i, "timeout") # {} =>
            /\ DriverAt(i, "out") = {}
            /\ DriverAt(i, "ec_write") = {}
            /\ Cardinality(DriverAt(i, "timeout")) = 1
            /\ \A t \in DriverAt(i, "timeout") :
                  \A n \in t..Len(result.log) :
                      result.log[n].who = "driver" /\ result.log[n].op = i
                          => result.log[n].k \in {"timeout", "return"}
            /\ result.op > i

\* C25: what ec_write_ram returns depends on the outcome of the lock
\* acquisition only: -EBUSY when the acquisition timed out, and 0 when the
\* lock was acquired and the port writes were issued.
RamReturnsLockOutcome ==
    RamCall =>
        \A i \in Ops : \A n \in DriverAt(i, "return") :
            result.log[n].a =
                (IF DriverAt(i, "timeout") # {} THEN 0 - EBUSY ELSE 0)

(***************************************************************************)
(* C26, C27: the suspend_mode attribute under Spec                         *)
(***************************************************************************)
\* the sysfs call of the last step was fn
Called(out, fn) == out # <<>> /\ out[1].fn = fn

\* C26: suspend_mode is oem until the driver is loaded; a step changes it
\* only if it is a suspend_mode_store given oem, keep or off, which stores
\* that option and returns the byte count; a suspend_mode_store given any
\* other string returns -EINVAL and leaves suspend_mode as it was.  No step
\* of Suspend, Resume, the writer or the colour setter changes it.
SuspendModeOnlyByStore ==
    /\ [](lifecycle = "Uninitialized" => suspend_mode = "oem")
    /\ [][/\ suspend_mode' # suspend_mode
                => /\ Called(sysfs_out', "suspend_mode_store")
                   /\ sysfs_out'[1].buf \in {"oem", "keep", "off"}
          /\ Called(sysfs_out', "suspend_mode_store")
                => IF sysfs_out'[1].buf \in {"oem", "keep", "off"}
                   THEN /\ suspend_mode' = sysfs_out'[1].buf
                        /\ sysfs_out'[1].ret > 0
                   ELSE /\ suspend_mode' = suspend_mode
                        /\ sysfs_out'[1].ret = -22]_vars

\* a store of an unknown string has just been refused while the mode was keep
InvalidStoreRefused ==
    /\ Called(sysfs_out, "suspend_mode_store")
    /\ sysfs_out[1].buf = "bogus"
    /\ sysfs_out[1].ret = -22
    /\ suspend_mode = "keep"

\* the options in an output of suspend_mode_show, and the bracketed ones
ShownOptions(out) ==
    SelectSeq(out, LAMBDA t : t \notin {"[", "]", " ", "\n"})
ShownBracketed(out) ==
    {out[i] : i \in {j \in 2..(Len(out) - 1) :
                        out[j - 1] = "[" /\ out[j + 1] = "]"}}
Occurrences(out, t) == Cardinality({i \in 1..Len(out) : out[i] = t})

\* C27: the output of suspend_mode_show lists oem, keep, off in this order
\* and has one pair of square brackets, around the current suspend_mode; a
\* suspend_mode_show that follows a suspend_mode_store of a valid option
\* shows that option in the brackets.
ShowBracketsCurrentMode ==
    /\ [](Called(sysfs_out, "suspend_mode_show")
            => /\ ShownOptions(sysfs_out[1].out) = <<"oem", "keep", "off">>
               /\ Occurrences(sysfs_out[1].out, "[") = 1
               /\ Occurrences(sysfs_out[1].out, "]") = 1
               /\ ShownBracketed(sysfs_out[1].out) = {suspend_mode})
    /\ [][(/\ Called(sysfs_out, "suspend_mode_store")
           /\ sysfs_out[1].ret > 0
           /\ Called(sysfs_out', "suspend_mode_show"))
            => ShownBracketed(sysfs_out'[1].out) = {sysfs_out[1].buf}]_vars

\* suspend_mode_show has just shown off in the brackets
ShownOffBracketed ==
    /\ Called(sysfs_out, "suspend_mode_show")
    /\ suspend_mode = "off"
    /\ sysfs_out[1].out = <<"oem", " ", "keep", " ", "[", "off", "]", "\n">>
    /\ sysfs_out[1].ret = 15

SetterReturnsUnlocked == spc \in Returned => update_lock # "setter"

(***************************************************************************)
(* C29: SetChargeBehavior under SpecFn                                     *)
(***************************************************************************)
\* C29: on a unit without the bypass-charge capability, SetChargeBehavior
\* (inhibit) returns CapabilityUnavailable, the stored behaviour is the one
\* stored before the call, and no hardware write is issued, by the call or
\* after it.
UnavailableChargeRefused ==
    (/\ args.fn = "charge"
     /\ ~args.available
     /\ args.behavior = "inhibit"
     /\ result # <<>>)
        => /\ result[1].ret = "CapabilityUnavailable"
           /\ result[1].stored = args.stored
           /\ result[1].writes = <<>>

\* inhibit was requested on a unit without the capability that stores auto,
\* and the call has returned
InhibitRefused ==
    /\ args.fn = "charge"
    /\ ~args.available
    /\ args.behavior = "inhibit"
    /\ args.stored = "auto"
    /\ result # <<>>
    /\ result[1].ret = "CapabilityUnavailable"

(***************************************************************************)
(* C31.  kthread_stop under SpecFair.                                      *)
(***************************************************************************)
\* C31: a Suspend or a Shutdown that has asked the writer to stop eventually
\* returns, whatever the setter does meanwhile (the threads being scheduled
\* fairly); and a writer that is asked to stop and is at the top of its loop
\* exits there, so that it runs at most the cascade it was in or about to
\* begin.
StopAlwaysReturns ==
    /\ (lpc \in {"suspend_stop", "exit_stop"}) ~> (lpc = "idle")
    /\ [][(should_stop /\ wpc = "check" /\ wpc' # wpc)
            => wpc' = "exited"]_vars

(***************************************************************************)
(* The setter's loop and the writer's snapshot one assignment at a time.   *)
(* In Spec each of the two is one step, which the lock is taken to         *)
(* justify; here the lock has to do it.  args holds s_led.intensity of the *)
(* setter call in progress and result its loop index i (from 1); wi is the *)
(* channel the writer copies next.                                         *)
(***************************************************************************)
FineWriterFrame ==
    UNCHANGED <<model, suspend_mode, brightness, writer_thread, should_stop,
                spc, lifecycle, lpc, acpi_busy, last_set, accepted_brightness,
                args, result, busy_periods, update_required, update_color,
                unsnapped>>

FineSetterFrame ==
    UNCHANGED <<model, suspend_mode, writer_thread, should_stop, wpc, count,
                color, wi, lifecycle, lpc, acpi_busy, busy_periods,
                unsnapped>>

\* write_lock waits for the writers and the readers of the lock
WriteLockFree_ignores_readers == update_lock \in {"free", "read"}
WriteLockFree == update_lock = "free"

\* if (brightness < 0 || brightness > 255) return; led_cdev->brightness = ...
F_SetBegin(b, ints) ==
    /\ spc \in Returned
    /\ lifecycle = "Active"
    /\ update_required < MaxPending
    /\ IF InRange(b)
       THEN brightness' = b /\ spc' = "lock" /\ args' = ints
       ELSE brightness' = brightness /\ spc' = "ret_1331" /\ args' = args
    /\ NoBus
    /\ FineSetterFrame
    /\ UNCHANGED <<update_required, update_color, update_lock, last_set,
                   accepted_brightness, result>>

\* write_lock(&ayaneo_led_mc_update_lock); i = 0
F_SetLock ==
    /\ spc = "lock"
    /\ WriteLockFree
    /\ update_lock' = "setter"
    /\ spc' = "loop"
    /\ result' = 1
    /\ NoBus
    /\ FineSetterFrame
    /\ UNCHANGED <<update_required, update_color, brightness, last_set,
                   accepted_brightness, args>>

\* one iteration of the loop: the range test, then the store
F_SetStore ==
    /\ spc = "loop"
    /\ result <= 3
    /\ IF InRange(args[result])
       THEN /\ update_color' =
                  [update_color EXCEPT ![result] = Val(brightness, args[result])]
            /\ result' = result + 1
            /\ spc' = "loop"
       ELSE /\ update_color' = update_color
            /\ result' = result
            /\ spc' = "ret_1339"
    /\ NoBus
    /\ FineSetterFrame
    /\ UNCHANGED <<update_required, update_lock, brightness, last_set,
                   accepted_brightness, args>>

\* ayaneo_led_mc_update_required++; write_unlock
F_SetEnd ==
    /\ spc = "loop"
    /\ result > 3
    /\ update_required' = update_required + 1
    /\ update_lock' = "free"
    /\ spc' = "ret_1345"
    /\ last_set' = update_color
    /\ accepted_brightness' = brightness
    /\ NoBus
    /\ FineSetterFrame
    /\ UNCHANGED <<update_color, brightness, args, result>>

\* count = ayaneo_led_mc_update_required; if (count)
F_count ==
    /\ wpc = "snap"
    /\ count' = update_required
    /\ wpc' = IF update_required # 0 THEN "copy" ELSE "unlock"
    /\ wi' = 1
    /\ NoBus
    /\ FineWriterFrame
    /\ UNCHANGED <<update_lock, color>>

\* color[wi] = ayaneo_led_mc_update_color[wi]
F_copy ==
    /\ wpc = "copy"
    /\ color' = [color EXCEPT ![wi] = update_color[wi]]
    /\ wi' = wi + 1
    /\ wpc' = IF wi = 3 THEN "unlock" ELSE "copy"
    /\ NoBus
    /\ FineWriterFrame
    /\ UNCHANGED <<update_lock, count>>

\* read_unlock(&ayaneo_led_mc_update_lock); if (count)
F_unlock ==
    /\ wpc = "unlock"
    /\ update_lock' = "free"
    /\ wpc' = IF count # 0 THEN "apply" ELSE "sleep"
    /\ wi' = 1
    /\ NoBus
    /\ FineWriterFrame
    /\ UNCHANGED <<count, color>>

InitFine ==
    /\ Init
    /\ model = air

NextFine ==
    \/ ayaneo_platform_init
    \/ \E b \in Brightnesses : \E ints \in IntensityTriples : F_SetBegin(b, ints)
    \/ F_SetLock
    \/ F_SetStore
    \/ F_SetEnd
    \/ W_check
    \/ W_rlock
    \/ F_count
    \/ F_copy
    \/ F_unlock
    \/ W_apply
    \/ W_wlock
    \/ W_sub
    \/ W_sleep

SpecFine == InitFine /\ [][NextFine]_vars

(***************************************************************************)
(* C32.                                                                    *)
(***************************************************************************)
\* C32: the triple the writer has copied when it releases the read lock is
\* the triple stored by the latest accepted setter call, all three channels
\* of it; the count it read is the counter at that moment; and from the read
\* of the count to the release the writer holds the read lock without a
\* break, while no setter is inside its loop.
SnapshotIsOneCall ==
    /\ [][(wpc = "unlock" /\ wpc' = "apply")
            => (color = last_set /\ count = update_required)]_vars
    /\ [](wpc \in {"snap", "copy", "unlock"}
            => (update_lock = "read" /\ spc # "loop"))
    /\ [][(wpc \in {"snap", "copy"}) => (update_lock' = "read")]_vars

\* the writer is about to release the lock holding the triple of a second
\* accepted call, which differs from the first in every channel it set
SecondTripleSnapshotted ==
    /\ wpc = "unlock"
    /\ count = 2
    /\ color = <<0, 128, 0>>
    /\ last_set = <<0, 128, 0>>

(***************************************************************************)
(* C33.  Reset, which every take-control issues, puts the colour registers *)
(* back to their power-on state; a cascade that has completed since has    *)
(* written both groups.                                                    *)
(***************************************************************************)
CascadeSinceTakeControl == hw.left # PowerOn /\ hw.right # PowerOn

\* C33: while the driver is Active, the writer is outside a cascade, the
\* counter is 0 and a cascade has completed since the last take-control, the
\* colours last written to the left and the right group are the scaled forms
\* of the target in ayaneo_led_mc_update_color (no bus write fails in Spec).
HardwareHoldsTarget ==
    (/\ lifecycle = "Active"
     /\ ~InCascade
     /\ update_required = 0
     /\ CascadeSinceTakeControl)
        => /\ hw.left = Color_l(model, update_color)
           /\ hw.right = Color_r(model, update_color)

(***************************************************************************)
(* C34, C35 under SpecPort                                                 *)
(***************************************************************************)
\* C34: a bus function that has returned does not hold the global lock: the
\* driver holds it neither between two functions of a call nor after the
\* last, whatever the outcome of the acquisitions and of the register
\* accesses.
LockReleasedOnReturn ==
    (result.pc = 1 \/ ~Running) => ~result.held

\* the register writes of function i, in the order they were made
OpWrites(i) ==
    SelectSeq(result.log,
              LAMBDA e : e.who = "driver" /\ e.op = i /\ e.k = "ec_write")

\* C35: the register writes of a legacy subpixel set begin with group (0x6d),
\* position (0xb1), brightness (0xb2) and mode WRITE (0x10 at 0xbf), in this
\* order and before the set's first release of the global lock; and a set
\* that has written mode WRITE and has returned has written mode HOLD (0xfe)
\* last, so that the next set does not begin with the register in WRITE
\* mode, whether or not an acquisition of the lock failed.
LegacySetEndsInHold ==
    args.fn \in {"ayaneo_led_mc_legacy_set",
                 "ayaneo_led_mc_legacy_intensity_single"} =>
        \A i \in Ops :
            LET w == OpWrites(i)
                regs == <<109, 177, 178, 191>>
            IN  /\ \A n \in 1..Len(w) : n <= 4 => w[n].a = regs[n]
                /\ Len(w) >= 4 => w[4].b = 16
                /\ DriverAt(i, "unlock") # {} => Len(w) >= 4
                /\ (result.op > i /\ Len(w) >= 4)
                      => (w[Len(w)].a = 191 /\ w[Len(w)].b = 254)

(***************************************************************************)
(* C36, C37 under SpecReg                                                  *)
(***************************************************************************)
\* the models with the indexed transport, as the claims name them
IndexedModels == {air_plus, slide}

\* the positions in the writes of a call at which val is written to reg
WritesOf(reg, val) ==
    {n \in 1..Len(result) : result[n].reg = reg /\ result[n].val = val}

\* the values written to the mode register (0x87 indexed, 0xbf legacy)
ModeValues ==
    LET reg == IF model \in IndexedModels THEN 135 ELSE 191
        w == SelectSeq(result, LAMBDA x : x.reg = reg)
    IN  [n \in 1..Len(w) |-> w[n].val]

\* C36: take-control writes hold first, then the reset command (0xc0 to the
\* enable register 0xb2), then the off command (0x31): every reset write
\* precedes every off write; release-control writes the reset command and
\* then, as its last write, release.  The last value written to the mode
\* register is HOLD (0xfe legacy, 0xa5 indexed) after take-control and
\* RELEASE (0x00) after release-control.
ControlSequencesInOrder ==
    LET hold == IF model \in IndexedModels THEN 165 ELSE 254
        reg == IF model \in IndexedModels THEN 135 ELSE 191
    IN  /\ (args.fn = "take_control" /\ result # <<>>)
            => /\ result[1] = [reg |-> reg, val |-> hold]
               /\ WritesOf(178, 192) # {}
               /\ WritesOf(178, 49) # {}
               /\ \A r \in WritesOf(178, 192) : \A o \in WritesOf(178, 49) :
                     1 < r /\ r < o
               /\ ModeValues[Len(ModeValues)] = hold
        /\ (args.fn = "release_control" /\ result # <<>>)
            => /\ WritesOf(178, 192) # {}
               /\ WritesOf(178, 49) = {}
               /\ result[Len(result)] = [reg |-> reg, val |-> 0]
               /\ \A r \in WritesOf(178, 192) : r < Len(result)
               /\ ModeValues[Len(ModeValues)] = 0

\* take-control on the Slide has made its five writes
SlideControlTaken ==
    /\ args.fn = "take_control"
    /\ model = slide
    /\ result = <<[reg |-> 135, val |-> 165],
                  [reg |-> 178, val |-> 192], [reg |-> 134, val |-> 1],
                  [reg |-> 178, val |-> 49], [reg |-> 134, val |-> 1]>>



\* the value registers of the indexed transport: 0xb3..0xbe, 0x73..0x7e
LeftValueRegs == 179..190
RightValueRegs == 115..126

\* the positions in the writes of a call at which reg is written
WritesTo(reg) == {n \in 1..Len(result) : result[n].reg = reg}

\* C37: on AIR Plus and Slide one cascade writes the on command (0xb1 to
\* 0xb2) first, then each register 0xb3..0xbe and 0x73..0x7e exactly once,
\* the zone's red, green and blue at offsets 0, 1 and 2 of the zones at 3, 6,
\* 9 and 12, and the write after each of them is 0x01 to 0xc6 for a left
\* register and 0x01 to 0x86 for a right one.
IndexedCascadeLayout ==
    (args.fn = "brightness_apply" /\ model \in IndexedModels /\ result # <<>>)
        => /\ result[1] = [reg |-> 178, val |-> 177]
           /\ \A a \in LeftValueRegs \cup RightValueRegs :
                 /\ Cardinality(WritesTo(a)) = 1
                 /\ \A n \in WritesTo(a) :
                       LET left == a \in LeftValueRegs
                           off == IF left THEN a - 179 ELSE a - 115
                           c == IF left THEN Color_l(model, args.color)
                                ELSE Color_r(model, args.color)
                       IN  /\ n > 1
                           /\ n < Len(result)
                           /\ result[n].val = c[(off % 3) + 1]
                           /\ result[n + 1] =
                                 [reg |-> IF left THEN 198 ELSE 134, val |-> 1]

\* a Slide cascade of a colour with three different channels has run
SlideCascadeWritten ==
    /\ args.fn = "brightness_apply"
    /\ model = slide
    /\ args.color = <<40, 215, 24>>
    /\ Len(result) = 50
    /\ result[3].reg = 179
    /\ result[4] = [reg |-> 198, val |-> 1]
    /\ result[49].reg = 126
    /\ result[50] = [reg |-> 134, val |-> 1]

\* the registers only the legacy transport writes (PWM control 0x6d, mode
\* 0xbf) and those only the indexed transport writes (mode 0x87, the commit
\* registers 0x86 and 0xc6)
LegacyOnlyRegs == {109, 191}
IndexedOnlyRegs == {135, 134, 198}

UsesRegs(ws, regs) == \E n \in 1..Len(ws) : ws[n].reg \in regs

\* C38: for each of the twelve models, take-control, release-control and the
\* colour cascade each run a non-default branch (the call writes registers),
\* and each writes through one transport only: the indexed one on AIR Plus
\* and Slide, the legacy one on every other model.
EveryModelOneTransport ==
    [][/\ result' # <<>>
       /\ UsesRegs(result', IndexedOnlyRegs) = (model \in IndexedModels)
       /\ UsesRegs(result', LegacyOnlyRegs) = (model \notin IndexedModels)]_vars

\* release-control has run on an AIR Plus Mendocino, through the legacy
\* transport
MendoReleasedLegacy ==
    /\ args.fn = "release_control"
    /\ model = air_plus_mendo
    /\ result # <<>>
    /\ UsesRegs(result, LegacyOnlyRegs)
    /\ result[Len(result)] = [reg |-> 191, val |-> 0]

(***************************************************************************)
(* Module load in steps.  args is what the kernel hands the driver while   *)
(* it loads: whether dmi_first_match finds an entry of dmi_table and the   *)
(* driver_data of that entry, the outcome of                               *)
(* devm_led_classdev_multicolor_register, and the outcome of kthread_run.  *)
(* A pointer is "null", "err" (an ERR_PTR) or "valid".  lpc = "init_thread" *)
(* is ayaneo_platform_init after platform_create_bundle has returned a     *)
(* device.  lifecycle = "LoadFailed": ayaneo_platform_init returned an     *)
(* error.                                                                  *)
(***************************************************************************)
ModelsLoaded == {air, air_plus}

LoadArgs ==
    [fn : {"load"}, matched : {TRUE}, driver_data : ModelsLoaded,
     register : {"ok", "err"}, thread : {"ok", "err"}]
    \cup [fn : {"load"}, matched : {FALSE}, driver_data : {unresolved},
          register : {"ok", "err"}, thread : {"ok", "err"}]

InitLoad ==
    /\ args \in LoadArgs
    /\ model = unresolved
    /\ result = <<>>
    /\ suspend_mode = "oem"
    /\ update_required = 0
    /\ update_color = <<0, 0, 0>>
    /\ update_lock = "free"
    /\ brightness = 0
    /\ writer_thread = "null"
    /\ should_stop = FALSE
    /\ wpc = "none"
    /\ count = 0
    /\ color = <<0, 0, 0>>
    /\ wi = 1
    /\ spc = "idle"
    /\ lifecycle = "Uninitialized"
    /\ lpc = "idle"
    /\ hw = HwBoot
    /\ bus_out = <<>>
    /\ acpi_busy = FALSE
    /\ busy_periods = 0
    /\ last_set = <<0, 0, 0>>
    /\ unsnapped = 0
    /\ accepted_brightness = 0
    /\ sysfs_out = <<>>

LoadFrame ==
    UNCHANGED <<suspend_mode, update_color, brightness, spc, acpi_busy,
                last_set, accepted_brightness, args, result, busy_periods,
                update_required, update_lock, unsnapped>>

\* dmi_first_match(dmi_table): the entry, or NULL when none matches
dmi_first_match == IF args.matched THEN "valid" ELSE "null"

\* PTR_ERR_OR_ZERO(ptr): IS_ERR(ptr) ? PTR_ERR(ptr) : 0; NULL is no ERR_PTR
PTR_ERR_OR_ZERO(ptr) == IF ptr = "err" THEN -1 ELSE 0

\* what match->driver_data can read through a null match, when the read
\* does not fault
NullReads == {unresolved, kun}

\* ayaneo_platform_probe, run by platform_create_bundle.  d is the value read
\* from match->driver_data; fault: the read faults.
ayaneo_platform_probe(d, fault) ==
    /\ lifecycle = "Uninitialized"
    /\ lpc = "idle"
    /\ IF PTR_ERR_OR_ZERO(dmi_first_match) # 0
       THEN /\ model' = model
            /\ NoBus
            /\ lifecycle' = "LoadFailed"
            /\ lpc' = lpc
       ELSE /\ d \in (IF dmi_first_match = "null" THEN NullReads
                      ELSE {args.driver_data})
            /\ fault => dmi_first_match = "null"
            /\ IF fault
               THEN /\ model' = model
                    /\ NoBus
                    /\ lifecycle' = "Crashed"
                    /\ lpc' = lpc
               ELSE /\ model' = d
                    /\ Issue(TakeControlOps(d))
                    /\ IF args.register = "err"
                       THEN lifecycle' = "LoadFailed" /\ lpc' = lpc
                       ELSE lifecycle' = lifecycle /\ lpc' = "init_thread"
    /\ LoadFrame
    /\ UNCHANGED <<writer_thread, should_stop, wpc, count, color, wi>>

\* kthread_run: the task, or an ERR_PTR when the thread cannot be created
kthread_run == IF args.thread = "ok" THEN "live" ELSE "err"

\* ayaneo_platform_init after platform_create_bundle: kthread_run, the test
\* of the handle against NULL, return
InitThread ==
    /\ lpc = "init_thread"
    /\ IF kthread_run = "live"
       THEN ThreadStarts
       ELSE /\ writer_thread' = kthread_run
            /\ UNCHANGED <<should_stop, wpc, count, color, wi>>
    /\ lifecycle' = IF kthread_run = "null" THEN "LoadFailed" ELSE "Active"
    /\ lpc' = "idle"
    /\ NoBus
    /\ model' = model
    /\ LoadFrame

\* kthread_stop on a handle that is an ERR_PTR reads the task through an
\* address no page is mapped at: it faults, or it never returns (no step)
StopFailedHandle ==
    /\ lpc \in {"suspend_stop", "exit_stop"}
    /\ writer_thread = "err"
    /\ lifecycle' = "Crashed"
    /\ lpc' = "idle"
    /\ NoBus
    /\ model' = model
    /\ LoadFrame
    /\ UNCHANGED <<writer_thread, should_stop, wpc, count, color, wi>>

NextLoad ==
    \/ \E d \in NullReads \cup ModelsLoaded :
          \E fault \in BOOLEAN : ayaneo_platform_probe(d, fault)
    \/ InitThread
    \/ StopFailedHandle
    \/ Writer
    \/ Setter
    \/ SuspendBegin
    \/ SuspendFinish
    \/ ResumeBegin
    \/ ResumeLock
    \/ ResumeBump
    \/ ExitBegin
    \/ ExitFinish

SpecLoad == InitLoad /\ [][NextLoad]_vars

\* C39: when no entry of dmi_table matches, probe returns an error (the load
\* fails), model keeps its initial value and the hardware has received no
\* write.
NoMatchProbeFails ==
    (~args.matched /\ lifecycle # "Uninitialized")
        => /\ lifecycle = "LoadFailed"
           /\ model = unresolved
           /\ hw = HwBoot

\* C40: when kthread_run fails in ayaneo_platform_init the load fails, and
\* kthread_stop is never called on the handle of the failed creation.
ThreadFailureDetected ==
    writer_thread = "err"
        => /\ lifecycle = "LoadFailed"
           /\ lpc \notin {"suspend_stop", "exit_stop"}
====
